---- MODULE Spec2Model ----
(***************************************************************************)
(* A model of the embedded-template compiler of template.js               *)
(* (src/src/template.ts and its util module).  Strings are sequences of   *)
(* one-character strings, so that the regular expressions, the escaping   *)
(* and the line splitting of the source are computed character by         *)
(* character.                                                             *)
(***************************************************************************)
EXTENDS Integers, Sequences, FiniteSets, TLC

VARIABLES
  input,    \* the arguments of the run: template text, options, data contexts
  tmpl,     \* the Template instance: _source, _escape, _fn (0 = undefined)
  fns,      \* the functions built by _compileFn so far, by identity
  stats,    \* how often the parser, the generator and the builder have run
  rets,     \* the values returned by the compile() calls so far
  calls     \* the invocations of compiled functions, in call order

vars == <<input, tmpl, fns, stats, rets, calls>>

-----------------------------------------------------------------------------
(* Characters and character classes of the regular expressions.            *)

NL == "\n"
CR == "\r"

\* \s of a JavaScript regular expression, over the characters of the model
IsSpace(c) == c \in {" ", "\t", NL, CR}

\* \w of a JavaScript regular expression, over the characters of the model
WordChars == {"a", "b", "c", "f", "g", "o", "w", "i", "t", "_"}
IsWord(c) == c \in WordChars

\* . of a JavaScript regular expression (no s flag): anything but a line terminator
IsDot(c) == c \notin {NL, CR}

AllDot(s) == \A i \in 1..Len(s) : IsDot(s[i])
AllSpace(s) == \A i \in 1..Len(s) : IsSpace(s[i])

Min(S) == CHOOSE m \in S : \A k \in S : m <= k

\* s.slice(off): the characters after the first off ones
Slice(s, off) == SubSeq(s, off + 1, Len(s))

\* whether the characters of p stand in s at index i
HasAt(s, i, p) ==
  /\ i >= 1
  /\ i + Len(p) - 1 <= Len(s)
  /\ \A k \in 1..Len(p) : s[i + k - 1] = p[k]

\* the index after the run of characters satisfying the class, starting at i
RECURSIVE SkipSpace(_, _)
SkipSpace(s, i) == IF i <= Len(s) /\ IsSpace(s[i]) THEN SkipSpace(s, i + 1) ELSE i

RECURSIVE SkipWord(_, _)
SkipWord(s, i) == IF i <= Len(s) /\ IsWord(s[i]) THEN SkipWord(s, i + 1) ELSE i

RECURSIVE Flatten(_)
Flatten(ss) == IF ss = <<>> THEN <<>> ELSE Head(ss) \o Flatten(Tail(ss))

Null == [matched |-> FALSE]

-----------------------------------------------------------------------------
(* Template.constructor: template.split(/\r?\n/)                           *)

\* the number of line breaks in s
Newlines(s) == Cardinality({i \in 1..Len(s) : s[i] = NL})

\* Array.prototype.join with a line break as the separator
RECURSIVE JoinLines(_)
JoinLines(ls) ==
  IF ls = <<>> THEN <<>>
  ELSE IF Len(ls) = 1 THEN ls[1]
  ELSE ls[1] \o <<NL>> \o JoinLines(Tail(ls))

RECURSIVE SplitLines(_)
SplitLines(s) ==
  LET nls == {i \in 1..Len(s) : s[i] = NL}
  IN IF nls = {} THEN <<s>>
     ELSE LET i == Min(nls)
              e == IF i > 1 /\ s[i - 1] = CR THEN i - 2 ELSE i - 1
          IN <<SubSeq(s, 1, e)>> \o SplitLines(SubSeq(s, i + 1, Len(s)))

-----------------------------------------------------------------------------
(* The regular expressions of the parser.  A match is computed in steps,   *)
(* each step an operator that receives what the steps before it found.     *)

\* the optional group (%|#|={1,2})? at index i: the type and its length
TagType(s, i) ==
  IF i > Len(s) THEN [type |-> "", len |-> 0]
  ELSE IF s[i] = "%" THEN [type |-> "%", len |-> 1]
  ELSE IF s[i] = "#" THEN [type |-> "#", len |-> 1]
  ELSE IF s[i] = "=" THEN
    IF i + 1 <= Len(s) /\ s[i + 1] = "=" THEN [type |-> "==", len |-> 2]
    ELSE [type |-> "=", len |-> 1]
  ELSE [type |-> "", len |-> 0]

\* the least index p >= from with the characters a, b at p and p + 1 (0: none)
FirstPair(s, from, a, b) ==
  LET cands == {p \in from..(Len(s) - 1) : s[p] = a /\ s[p + 1] = b}
  IN IF cands = {} THEN 0 ELSE Min(cands)

\* the least index m >= from with the character a at m (0: none)
FirstChar(s, from, a) ==
  LET cands == {m \in from..Len(s) : s[m] = a}
  IN IF cands = {} THEN 0 ELSE Min(cands)

LineMatchAt(line, p) ==
  IF p > Len(line) \/ line[p] # "%" \/ ~AllDot(Slice(line, p)) THEN Null
  ELSE [matched |-> TRUE,
        indent  |-> SubSeq(line, 1, p - 1),
        type    |-> TagType(line, p + 1).type,
        value   |-> Slice(line, p + TagType(line, p + 1).len)]

\* line.match(LINE_RE), LINE_RE = /^(\s*)%(%|#|={1,2})?(.*?)$/
LineMatch(line) == LineMatchAt(line, SkipSpace(line, 1))

StartMatchAt(s, off, p) ==
  IF p = 0 \/ ~AllDot(SubSeq(s, off + 1, p - 1)) THEN Null
  ELSE [matched   |-> TRUE,
        leftovers |-> SubSeq(s, off + 1, p - 1),
        type      |-> TagType(s, p + 2).type,
        offset    |-> p + 1 + TagType(s, p + 2).len]

\* stickyMatch(sticky, START_RE), START_RE = /(.*?)<%(%|#|={1,2})?/y;
\* off is sticky.offset, offset is the offset after the match
StartMatch(s, off) == StartMatchAt(s, off, FirstPair(s, off + 1, "<", "%"))

\* q is the index of the first %> after the offset, eq tells that a = stands
\* before it
EndMatchAt(s, off, q, eq) ==
  IF q = 0 \/ ~AllDot(SubSeq(s, off + 1, IF eq THEN q - 2 ELSE q - 1)) THEN Null
  ELSE [matched |-> TRUE,
        value   |-> SubSeq(s, off + 1, IF eq THEN q - 2 ELSE q - 1),
        trim    |-> eq,
        offset  |-> q + 1]

EndMatchFirst(s, off, q) == EndMatchAt(s, off, q, q - 1 >= off + 1 /\ s[q - 1] = "=")

\* stickyMatch(sticky, END_RE), END_RE = /(.*?)(=)?%>/y
EndMatch(s, off) == EndMatchFirst(s, off, FirstPair(s, off + 1, "%", ">"))

\* stickyMatch that leaves in the cursor what the pattern's lastIndex is after
\* exec: 0 after a failed match
stickyMatchLastIndex(sticky, match) ==
  [sticky |-> [sticky EXCEPT !.offset = IF match.matched THEN match.offset ELSE 0],
   match  |-> match]

\* stickyMatch(stringWithOffset, stickyRegex), for the result match of
\* stickyRegex.exec(stringWithOffset.value) with lastIndex at the offset
stickyMatch(sticky, match) ==
  [sticky |-> IF match.matched THEN [sticky EXCEPT !.offset = match.offset] ELSE sticky,
   match  |-> match]

\* the end of BLOCK_NAME and the closing characters: k is the index after
\* \s*, m the index of the first } after it
MarkerClose(s, close, sl, n0, j, k, m) ==
  IF j = n0 THEN Null
  ELSE IF k <= Len(s) /\ s[k] = "(" /\ m # 0 /\ m - 1 > k /\ s[m - 1] = ")"
          /\ HasAt(s, m, close)
    THEN [matched  |-> TRUE,
          slash    |-> sl,
          name     |-> SubSeq(s, n0, j - 1),
          hasHints |-> TRUE,
          hints    |-> SubSeq(s, k + 1, m - 2),
          last     |-> m + Len(close) - 1]
  ELSE IF HasAt(s, j, close)
    THEN [matched  |-> TRUE,
          slash    |-> sl,
          name     |-> SubSeq(s, n0, j - 1),
          hasHints |-> FALSE,
          hints    |-> <<>>,
          last     |-> j + Len(close) - 1]
  ELSE Null

MarkerName(s, close, sl, n0, j) ==
  MarkerClose(s, close, sl, n0, j, SkipSpace(s, j), FirstChar(s, SkipSpace(s, j) + 1, "}"))

\* BLOCK_NAME = (/?)(\w+)(?:\s*\(([^}]*)\))? between the opening and the
\* closing characters, at index p of s; last is the index of the last
\* character of the match
MarkerAt(s, p, open, close) ==
  IF ~HasAt(s, p, open) THEN Null
  ELSE IF p + Len(open) <= Len(s) /\ s[p + Len(open)] = "/"
    THEN MarkerName(s, close, TRUE, p + Len(open) + 1, SkipWord(s, p + Len(open) + 1))
  ELSE MarkerName(s, close, FALSE, p + Len(open), SkipWord(s, p + Len(open)))

\* the leftmost index from p on at which BLOCK_RE matches the whole text
RECURSIVE BlockMatchFrom(_, _)
BlockMatchTry(text, p, m) ==
  IF m.matched /\ AllDot(SubSeq(text, 1, p - 1)) /\ AllDot(Slice(text, m.last))
  THEN [matched |-> TRUE,
        prefix  |-> SubSeq(text, 1, p - 1),
        slash   |-> m.slash,
        name    |-> m.name,
        hints   |-> m.hints,
        rest    |-> Slice(text, m.last)]
  ELSE BlockMatchFrom(text, p + 1)

BlockMatchFrom(text, p) ==
  IF p > Len(text) THEN Null
  ELSE BlockMatchTry(text, p, MarkerAt(text, p, <<"<", "{">>, <<"}", ">">>))

\* text.match(BLOCK_RE), BLOCK_RE = ^(.*?)<\{BLOCK_NAME\}>(.*?)$
BlockMatch(text) == BlockMatchFrom(text, 1)

\* blockReplace that returns the match as it is
blockKeep(m) ==
  <<"<", "{", "{">> \o (IF m.slash THEN <<"/">> ELSE <<>>)
    \o (IF m.hasHints THEN m.name \o <<"(">> \o m.hints \o <<")">> ELSE m.name)
    \o <<"}", "}", ">">>

\* blockReplace(...match)
blockReplace(m) ==
  <<"<", "{">> \o (IF m.slash THEN <<"/">> ELSE <<>>)
    \o (IF m.hasHints THEN m.name \o <<"(">> \o m.hints \o <<")">> ELSE m.name)
    \o <<"}", ">">>

\* text.replaceAll(BLOCK_REPLACE_RE, blockReplace),
\* BLOCK_REPLACE_RE = /<\{\{BLOCK_NAME\}\}>/g, from index i on
RECURSIVE BlockReplaceFrom(_, _)
BlockReplaceTry(s, i, m) ==
  IF m.matched THEN blockReplace(m) \o BlockReplaceFrom(s, m.last + 1)
  ELSE <<s[i]>> \o BlockReplaceFrom(s, i + 1)

BlockReplaceFrom(s, i) ==
  IF i > Len(s) THEN <<>>
  ELSE BlockReplaceTry(s, i, MarkerAt(s, i, <<"<", "{", "{">>, <<"}", "}", ">">>))

BlockReplaceAll(s) == BlockReplaceFrom(s, 1)

-----------------------------------------------------------------------------
(* The AST and the parser.                                                 *)

Node(op, value) == [op |-> op, value |-> value, hints |-> <<>>]

\* appendNodes(ast, ...nodes)
RECURSIVE appendNodes(_, _)
appendNodes(ast, nodes) ==
  IF nodes = <<>> THEN ast
  ELSE appendNodes(
         IF Len(ast) >= 1 /\ ast[Len(ast)].op = Head(nodes).op
         THEN [ast EXCEPT ![Len(ast)].value = ast[Len(ast)].value \o Head(nodes).value]
         ELSE Append(ast, Head(nodes)),
         Tail(nodes))

\* parseBlock(text, op)
RECURSIVE parseBlock(_, _)
parseBlockMatch(text, op, blockMatch) ==
  IF ~blockMatch.matched THEN <<Node(op, BlockReplaceAll(text))>>
  ELSE (IF AllSpace(blockMatch.prefix) THEN <<>> ELSE parseBlock(blockMatch.prefix, op))
       \o <<[op    |-> IF blockMatch.slash THEN "blockEnd" ELSE "blockStart",
             value |-> blockMatch.name,
             hints |-> blockMatch.hints]>>
       \o parseBlock(blockMatch.rest, op)

parseBlock(text, op) ==
  IF text = <<>> THEN <<>>
  ELSE IF op # "text" THEN <<Node(op, text)>>
  ELSE parseBlockMatch(text, op, BlockMatch(text))

\* the mode a tag opener of the given type switches to (a replacement
\* opener stays in text mode)
OpenerOp(type) ==
  IF type = "%" THEN "text"
  ELSE IF type = "#" THEN "comment"
  ELSE IF type = "=" THEN "escape"
  ELSE IF type = "==" THEN "expression"
  ELSE "code"

\* the scan loop of parseLine, from the cursor offset on
RECURSIVE parseLineLoop(_, _, _, _, _)
\* parseLineEnd that sets trim for every =%>, wherever it stands on the line
parseLineEndAnywhere(line, offset, op, nodes, trim, endMatch) ==
  IF endMatch.matched
  THEN parseLineLoop(line, endMatch.offset, "text",
         appendNodes(nodes, <<Node(op, endMatch.value), Node("end", <<>>)>>),
         IF endMatch.trim THEN TRUE ELSE trim)
  ELSE parseLineLoop(line, Len(line), op,
         appendNodes(nodes, <<Node(op, Slice(line, offset))>>), trim)

\* the tag end that appends no end node
parseLineEndUnmarked(line, offset, op, nodes, trim, endMatch) ==
  IF endMatch.matched
  THEN parseLineLoop(line, endMatch.offset, "text",
         appendNodes(nodes, <<Node(op, endMatch.value)>>),
         IF endMatch.trim /\ Len(line) = endMatch.offset THEN TRUE ELSE trim)
  ELSE parseLineLoop(line, Len(line), op,
         appendNodes(nodes, <<Node(op, Slice(line, offset))>>), trim)

parseLineEnd(line, offset, op, nodes, trim, endMatch) ==
  IF endMatch.matched
  THEN parseLineLoop(line, endMatch.offset, "text",
         appendNodes(nodes, <<Node(op, endMatch.value), Node("end", <<>>)>>),
         IF endMatch.trim /\ Len(line) = endMatch.offset THEN TRUE ELSE trim)
  ELSE parseLineLoop(line, Len(line), op,
         appendNodes(nodes, <<Node(op, Slice(line, offset))>>), trim)

parseLineStart(line, offset, op, nodes, trim, startMatch) ==
  IF startMatch.matched
  THEN parseLineLoop(line, startMatch.offset, OpenerOp(startMatch.type),
         appendNodes(nodes,
           parseBlock(startMatch.leftovers, op)
             \o <<Node(OpenerOp(startMatch.type),
                       IF startMatch.type = "%" THEN <<"<", "%">> ELSE <<>>)>>),
         trim)
  ELSE parseLineLoop(line, Len(line), op,
         appendNodes(nodes, parseBlock(Slice(line, offset), op)), trim)

parseLineLoop(line, offset, op, nodes, trim) ==
  IF ~(Len(line) > offset) THEN [nodes |-> nodes, op |-> op, trim |-> trim]
  ELSE IF op # "text"
    THEN parseLineEnd(line, offset, op, nodes, trim, EndMatch(line, offset))
  ELSE parseLineStart(line, offset, op, nodes, trim, StartMatch(line, offset))

\* the end of parseLine without "Trim blocks"
parseLineNewlineKept(r, isLastLine) ==
  [nodes  |-> IF r.op = "text" /\ ~r.trim /\ ~isLastLine
              THEN appendNodes(r.nodes, <<Node(r.op, <<NL>>)>>)
              ELSE r.nodes,
   nextOp |-> r.op]

\* the end of parseLine: "Trim blocks" and "Newline"
parseLineNewline(r, isLastLine) ==
  [nodes  |-> IF /\ r.op = "text"
                 /\ ~r.trim
                 /\ ~(Len(r.nodes) > 0
                      /\ r.nodes[Len(r.nodes)].op \in {"blockStart", "blockEnd"})
                 /\ ~isLastLine
              THEN appendNodes(r.nodes, <<Node(r.op, <<NL>>)>>)
              ELSE r.nodes,
   nextOp |-> r.op]

\* parseLine(line, op, isLastLine)
parseLine(line, op, isLastLine) ==
  parseLineNewline(parseLineLoop(line, 0, op, <<>>, FALSE), isLastLine)

\* DirectiveNodes without the newline after an expression line
DirectiveNodesBare(lineMatch, isLast) ==
  (IF lineMatch.type = "#" THEN <<Node("comment", lineMatch.value)>>
   ELSE IF lineMatch.type = "=" THEN <<Node("escape", lineMatch.value)>>
   ELSE IF lineMatch.type = "==" THEN <<Node("expression", lineMatch.value)>>
   ELSE <<Node("code", lineMatch.value)>>)
  \o <<Node("end", <<>>), Node("line", <<>>)>>

\* DirectiveNodes with a newline after every line that is not the last one
DirectiveNodesNewline(lineMatch, isLast) ==
  (IF lineMatch.type = "#" THEN <<Node("comment", lineMatch.value)>>
   ELSE IF lineMatch.type = "=" THEN <<Node("escape", lineMatch.value)>>
   ELSE IF lineMatch.type = "==" THEN <<Node("expression", lineMatch.value)>>
   ELSE <<Node("code", lineMatch.value)>>)
  \o (IF ~isLast THEN <<Node("text", <<NL>>)>> ELSE <<>>)
  \o <<Node("end", <<>>), Node("line", <<>>)>>

\* the nodes a JavaScript line that is no replacement appends
DirectiveNodes(lineMatch, isLast) ==
  (IF lineMatch.type = "#" THEN <<Node("comment", lineMatch.value)>>
   ELSE IF lineMatch.type = "=" THEN
     <<Node("escape", lineMatch.value)>>
       \o (IF ~isLast THEN <<Node("text", <<NL>>)>> ELSE <<>>)
   ELSE IF lineMatch.type = "==" THEN
     <<Node("expression", lineMatch.value)>>
       \o (IF ~isLast THEN <<Node("text", <<NL>>)>> ELSE <<>>)
   ELSE <<Node("code", lineMatch.value)>>)
  \o <<Node("end", <<>>), Node("line", <<>>)>>

\* a line handed to parseLine: a replacement line (op reset to text
\* afterwards) or a mixed line
ScannedNodes(replacement, scanned) ==
  IF replacement
  THEN [nodes |-> scanned.nodes \o <<Node("end", <<>>), Node("line", <<>>)>>, op |-> "text"]
  ELSE [nodes |-> scanned.nodes \o <<Node("line", <<>>)>>, op |-> scanned.nextOp]

\* LineNodes that classifies the line in every mode
LineNodesInTag(line, op, isLast, lineMatch) ==
  IF lineMatch.matched /\ lineMatch.type # "%"
    THEN [nodes |-> DirectiveNodes(lineMatch, isLast), op |-> "text"]
  ELSE IF op # "text" /\ line = <<>>
    THEN [nodes |-> <<Node(op, <<>>), Node("line", <<>>)>>, op |-> op]
  ELSE ScannedNodes(op = "text" /\ lineMatch.matched,
         parseLine(IF op = "text" /\ lineMatch.matched
                   THEN lineMatch.indent \o <<"%">> \o lineMatch.value
                   ELSE line,
                   op, isLast))

\* one iteration of the loop of parseTemplate: the nodes appended for the
\* line and the mode of the next line
LineNodes(line, op, isLast, lineMatch) ==
  IF op = "text" /\ lineMatch.matched /\ lineMatch.type # "%"
    THEN [nodes |-> DirectiveNodes(lineMatch, isLast), op |-> "text"]
  ELSE IF op # "text" /\ line = <<>>
    THEN [nodes |-> <<Node(op, <<>>), Node("line", <<>>)>>, op |-> op]
  ELSE ScannedNodes(op = "text" /\ lineMatch.matched,
         parseLine(IF op = "text" /\ lineMatch.matched
                   THEN lineMatch.indent \o <<"%">> \o lineMatch.value
                   ELSE line,
                   op, isLast))

\* the loop of parseTemplate, from line i on
RECURSIVE parseTemplateLoop(_, _, _, _)
parseTemplateStep(lines, i, ast, step) ==
  parseTemplateLoop(lines, i + 1, step.op, appendNodes(ast, step.nodes))

parseTemplateLoop(lines, i, op, ast) ==
  IF i > Len(lines) THEN ast
  ELSE parseTemplateStep(lines, i, ast,
         LineNodes(lines[i], op, i = Len(lines), LineMatch(lines[i])))

\* the variable op of parseTemplate when the loop reaches line i
RECURSIVE opAt(_, _)
opAt(lines, i) ==
  IF i <= 1 THEN "text"
  ELSE LineNodes(lines[i - 1], opAt(lines, i - 1), i - 1 = Len(lines),
                 LineMatch(lines[i - 1])).op

\* parseTemplate(lines)
parseTemplate(lines) == parseTemplateLoop(lines, 1, "text", <<>>)

-----------------------------------------------------------------------------
(* The code generator.  The generated source is kept as the sequence of    *)
(* the fragments compileTemplate concatenates; the embedded text is kept   *)
(* character by character.                                                 *)

\* text.replaceAll(from, to) for a single character from
RECURSIVE ReplaceChar(_, _, _)
ReplaceChar(s, from, to) ==
  IF s = <<>> THEN <<>>
  ELSE (IF Head(s) = from THEN to ELSE <<Head(s)>>) \o ReplaceChar(Tail(s), from, to)

\* escapeText with the quote escaped before the backslash
escapeTextQuoteFirst(text) ==
  ReplaceChar(
    ReplaceChar(
      ReplaceChar(
        ReplaceChar(text, "'", <<"\\", "'">>),
        "\\", <<"\\", "\\">>),
      NL, <<"\\", "n">>),
    CR, <<"\\", "r">>)

\* escapeText that leaves the backslash as it is
escapeTextBackslashKept(text) ==
  ReplaceChar(
    ReplaceChar(
      ReplaceChar(text, "'", <<"\\", "'">>),
      NL, <<"\\", "n">>),
    CR, <<"\\", "r">>)

\* escapeText(text)
escapeText(text) ==
  ReplaceChar(
    ReplaceChar(
      ReplaceChar(
        ReplaceChar(text, "\\", <<"\\", "\\">>),
        "'", <<"\\", "'">>),
      NL, <<"\\", "n">>),
    CR, <<"\\", "r">>)

\* the index of the last character of s that is no white space (0: none)
LastNonSpace(s) ==
  LET nonSpace == {i \in 1..Len(s) : ~IsSpace(s[i])}
  IN IF nonSpace = {} THEN 0 ELSE CHOOSE i \in nonSpace : \A k \in nonSpace : k <= i

sanitizeAt(expr, t) == IF t # 0 /\ expr[t] = ";" THEN SubSeq(expr, 1, t - 1) ELSE expr

\* sanitizeExpr(expr): expr.replace(/;\s*$/, '')
sanitizeExpr(expr) == sanitizeAt(expr, LastNonSpace(expr))

Piece(k, v) == [k |-> k, v |-> v, hints |-> <<>>]

\* the multi-line look-ahead of compileTemplate: the value and the index of
\* the last node folded into the expression that starts at node i
RECURSIVE FoldExpr(_, _, _)
FoldExpr(ast, i, value) ==
  IF /\ i + 2 <= Len(ast)
     /\ ast[i + 1].op = "line"
     /\ ast[i + 2].op = ast[i].op
  THEN FoldExpr(ast, i + 2, value \o <<NL>> \o ast[i + 2].value)
  ELSE [value |-> value, last |-> i]

\* the fragment compileTemplate appends for a node; f is the look-ahead
PieceOf(node, f) ==
  IF node.op \in {"escape", "expression"} THEN <<Piece(node.op, sanitizeExpr(f.value))>>
  ELSE IF node.op = "text" THEN <<Piece("text", escapeText(node.value))>>
  ELSE IF node.op = "code" THEN <<Piece("code", node.value)>>
  ELSE IF node.op = "blockStart"
    THEN <<[k |-> "blockStart", v |-> node.value, hints |-> node.hints]>>
  ELSE IF node.op = "blockEnd" THEN <<Piece("blockEnd", <<>>)>>
  ELSE IF node.op = "line" THEN <<Piece("line", <<NL>>)>>
  ELSE <<>>

\* the loop of compileTemplate, from node i on
RECURSIVE compileLoop(_, _)
compileNode(ast, i, f) ==
  PieceOf(ast[i], f)
    \o compileLoop(ast, IF ast[i].op \in {"escape", "expression"} THEN f.last + 1 ELSE i + 1)

compileLoop(ast, i) ==
  IF i > Len(ast) THEN <<>>
  ELSE compileNode(ast, i, FoldExpr(ast, i, ast[i].value))

\* compileTemplate(ast): the body between "let __output = '';" and
\* "return __output;" (the three wrappers add no line break)
compileTemplate(ast) == compileLoop(ast, 1)

\* the line breaks of the generated source that stand before the statement
\* of piece pc
RECURSIVE NewlinesBefore(_, _)
NewlinesBefore(code, pc) ==
  IF pc <= 1 THEN 0
  ELSE Newlines(code[pc - 1].v) + NewlinesBefore(code, pc - 1)

-----------------------------------------------------------------------------
(* Values, SafeString and the escape functions.                            *)

Str(s) == [t |-> "str", s |-> s]
Undefined == [t |-> "undef", s |-> <<>>]
JsNull == [t |-> "null", s |-> <<>>]

\* safe that returns the plain string
unsafe(s) == Str(s)

\* safe(safe): new SafeString(safe)
safe(s) == [t |-> "safe", s |-> s]

\* `${value}`: SafeString.toString() returns _safe
ToStr(v) ==
  IF v.t \in {"str", "safe"} THEN v.s
  ELSE IF v.t = "undef" THEN <<"u", "n", "d", "e", "f", "i", "n", "e", "d">>
  ELSE <<"n", "u", "l", "l">>

\* xmlEscapeReplace(char): XML_ESCAPE[char]
xmlEscapeReplace(c) ==
  IF c = "&" THEN <<"&", "a", "m", "p", ";">>
  ELSE IF c = "<" THEN <<"&", "l", "t", ";">>
  ELSE IF c = ">" THEN <<"&", "g", "t", ";">>
  ELSE IF c = "\"" THEN <<"&", "q", "u", "o", "t", ";">>
  ELSE <<"&", "#", "3", "9", ";">>

\* value.replace(/[&<>'"]/g, xmlEscapeReplace)
RECURSIVE XmlReplace(_)
XmlReplace(s) ==
  IF s = <<>> THEN <<>>
  ELSE (IF Head(s) \in {"&", "<", ">", "'", "\""}
        THEN xmlEscapeReplace(Head(s)) ELSE <<Head(s)>>) \o XmlReplace(Tail(s))

\* xmlEscape without the test for a SafeString
xmlEscapeUnsafe(v) == XmlReplace(ToStr(v))

\* xmlEscape(value)
xmlEscape(v) == IF v.t = "safe" THEN ToStr(v) ELSE XmlReplace(ToStr(v))

\* the escape functions a Template is configured with: the default and the
\* custom function of the test suite, input => `+${input}`
EscapeFunctions == {"xmlEscape", "plus"}

\* __escape(value)
ApplyEscape(f, v) == IF f = "xmlEscape" THEN xmlEscape(v) ELSE <<"+">> \o ToStr(v)

-----------------------------------------------------------------------------
(* The function built from the generated source.  The embedded JavaScript  *)
(* is the subset: code that is white space and semicolons; expressions     *)
(* that are empty, an identifier, "await identifier" or                    *)
(* "await block(argument)".                                                *)

AWAIT == <<"a", "w", "a", "i", "t">>

\* identifiers that name values (data keys, block parameters) and blocks
ValueNames == {<<"a">>, <<"b">>, <<"c">>}
BlockNames == {<<"f">>, <<"g">>}

Trim(s) ==
  LET nonSpace == {i \in 1..Len(s) : ~IsSpace(s[i])}
  IN IF nonSpace = {} THEN <<>>
     ELSE SubSeq(s, Min(nonSpace), CHOOSE i \in nonSpace : \A k \in nonSpace : k <= i)

Bad == [form |-> "bad", await |-> FALSE, name |-> <<>>, arg |-> <<>>]

\* the closing parenthesis of a call: the argument stands at a..(b - 1) and
\* c is the index after the white space that follows it
PrimaryClose(t, aw, j, a, b, c) ==
  IF /\ c = Len(t) /\ t[c] = ")"
     /\ SubSeq(t, 1, j - 1) \in BlockNames /\ aw
     /\ (b = a \/ SubSeq(t, a, b - 1) \in ValueNames)
  THEN [form |-> "call", await |-> aw, name |-> SubSeq(t, 1, j - 1), arg |-> SubSeq(t, a, b - 1)]
  ELSE Bad

PrimaryArg(t, aw, j, a) ==
  PrimaryClose(t, aw, j, a, SkipWord(t, a), SkipSpace(t, SkipWord(t, a)))

PrimaryName(t, aw, j) ==
  IF j = 1 THEN Bad
  ELSE IF j > Len(t)
    THEN IF SubSeq(t, 1, j - 1) \in ValueNames
         THEN [form |-> "ident", await |-> aw, name |-> SubSeq(t, 1, j - 1), arg |-> <<>>]
         ELSE Bad
  ELSE IF SkipSpace(t, j) <= Len(t) /\ t[SkipSpace(t, j)] = "("
    THEN PrimaryArg(t, aw, j, SkipSpace(t, SkipSpace(t, j) + 1))
  ELSE Bad

\* an identifier or a call of a block with at most one identifier argument
Primary(t, aw) == PrimaryName(t, aw, SkipWord(t, 1))

\* the expression of an output statement without the white space around it
ParseTrimmed(t) ==
  IF t = <<>> THEN [form |-> "empty", await |-> FALSE, name |-> <<>>, arg |-> <<>>]
  ELSE IF /\ Len(t) > Len(AWAIT)
          /\ SubSeq(t, 1, Len(AWAIT)) = AWAIT
          /\ IsSpace(t[Len(AWAIT) + 1])
    THEN Primary(Slice(t, SkipSpace(t, Len(AWAIT) + 1) - 1), TRUE)
  ELSE Primary(t, FALSE)

\* the expression of an output statement, as the JavaScript parser reads it
ParseExpr(e) == ParseTrimmed(Trim(e))

\* the value of a single-quoted string literal with the given characters
\* between the quotes; a raw line terminator or quote ends the literal early
RECURSIVE DecodeFrom(_, _)
DecodeFrom(s, i) ==
  IF i > Len(s) THEN [ok |-> TRUE, s |-> <<>>]
  ELSE IF s[i] \in {NL, CR, "'"} THEN [ok |-> FALSE, s |-> <<>>]
  ELSE IF s[i] = "\\" THEN
    IF i = Len(s) THEN [ok |-> FALSE, s |-> <<>>]
    ELSE LET r == DecodeFrom(s, i + 2)
             c == IF s[i + 1] = "n" THEN NL
                  ELSE IF s[i + 1] = "r" THEN CR
                  ELSE IF s[i + 1] = "t" THEN "\t"
                  ELSE s[i + 1]
         IN [ok |-> r.ok /\ s[i + 1] \notin {NL, CR}, s |-> <<c>> \o r.s]
  ELSE LET r == DecodeFrom(s, i + 1)
       IN [ok |-> r.ok, s |-> <<s[i]>> \o r.s]

DecodeLiteral(s) == DecodeFrom(s, 1)

\* the index of the blockEnd fragment that closes the closure opened at i
\* (0 if the braces never close)
RECURSIVE CloseFrom(_, _, _)
CloseFrom(code, i, depth) ==
  IF i > Len(code) THEN 0
  ELSE IF code[i].k = "blockStart" THEN CloseFrom(code, i + 1, depth + 1)
  ELSE IF code[i].k = "blockEnd"
    THEN IF depth = 0 THEN i ELSE CloseFrom(code, i + 1, depth - 1)
  ELSE CloseFrom(code, i + 1, depth)

BlockClose(code, i) == CloseFrom(code, i + 1, 0)

\* the innermost closure that encloses fragment i (0: the function body)
Enclosing(code, i) ==
  LET open == {j \in 1..(i - 1) : code[j].k = "blockStart"
                                   /\ (BlockClose(code, j) = 0 \/ BlockClose(code, j) > i)}
  IN IF open = {} THEN 0 ELSE CHOOSE j \in open : \A m \in open : m <= j

\* whether every embedded fragment lies in the modelled subset of JavaScript
InSubset(code) ==
  \A i \in 1..Len(code) :
    LET p == code[i]
    IN /\ p.k = "code" => \A n \in 1..Len(p.v) : IsSpace(p.v[n]) \/ p.v[n] = ";"
       /\ p.k \in {"escape", "expression"} => ParseExpr(p.v).form # "bad"
       /\ p.k = "blockStart" => /\ p.v \in BlockNames
                                /\ Trim(p.hints) \in ValueNames \cup {<<>>}

\* whether new AsyncFunction(..., code) accepts the source
SyntaxOK(code) ==
  /\ \A i \in 1..Len(code) :
       /\ code[i].k = "text" => DecodeLiteral(code[i].v).ok
       /\ code[i].k = "expression" => ParseExpr(code[i].v).form # "empty"
       /\ code[i].k = "blockStart" => BlockClose(code, i) # 0
       /\ code[i].k = "blockEnd" => \E j \in 1..(i - 1) : /\ code[j].k = "blockStart"
                                                           /\ BlockClose(code, j) = i
  /\ \A i, j \in 1..Len(code) :
       (i < j /\ code[i].k = "blockStart" /\ code[j].k = "blockStart"
        /\ code[i].v = code[j].v)
       => Enclosing(code, i) # Enclosing(code, j)

-----------------------------------------------------------------------------
(* Failures and throwWithContext.  A failure is an Error object: its       *)
(* identity, its class, its message and what STACK_RE finds in its stack   *)
(* (marker: the stack has a frame of the built function; g: the line of    *)
(* that frame in the generated source).  at is the identifier whose         *)
(* evaluation raised the failure.                                          *)

\* the name of a template that is constructed without options.name
DefaultName == <<"t", "e", "m", "p", "l", "a", "t", "e">>

\* the lines of the function new AsyncFunction(...) builds that precede its
\* body: "async function anonymous(__locals,...,__safe" and ") {"
HeaderLines == 2

NoError ==
  [object |-> 0, name |-> "", message |-> <<>>, at |-> <<>>, marker |-> FALSE, g |-> 0]

\* a new Error object, before the engine has recorded a stack for it
Failure(name, message, at) ==
  [object |-> 1, name |-> name, message |-> message, at |-> at, marker |-> FALSE, g |-> 0]

ReferenceError(ident) == Failure("ReferenceError", ident \o <<" ", "i", "s", " ", "n", "o", "t", " ", "d", "e", "f", "i", "n", "e", "d">>, ident)

RangeError(ident) == Failure("RangeError", <<"M", "a", "x", "i", "m", "u", "m", " ", "c", "a", "l", "l", " ", "s", "t", "a", "c", "k", " ", "s", "i", "z", "e", " ", "e", "x", "c", "e", "e", "d", "e", "d">>, ident)

\* the decimal digits of a number in a template string
RECURSIVE ToDigits(_)
ToDigits(n) ==
  IF n < 0 THEN <<"-">> \o ToDigits(0 - n)
  ELSE IF n < 10 THEN <<<<"0", "1", "2", "3", "4", "5", "6", "7", "8", "9">>[n + 1]>>
  ELSE ToDigits(n \div 10) \o ToDigits(n % 10)

\* contextLines with a window that begins one line earlier
contextLinesEarlier(lines, line, start, end) ==
  [i \in 1..(IF end > start THEN end - start + (IF start > 0 THEN 1 ELSE 0) ELSE 0) |->
     (IF start - (IF start > 0 THEN 1 ELSE 0) + i = line THEN <<" ", ">", ">", " ">> ELSE <<" ", " ", " ", " ">>)
       \o ToDigits(start - (IF start > 0 THEN 1 ELSE 0) + i) \o <<"|", " ">>
       \o lines[start - (IF start > 0 THEN 1 ELSE 0) + i]]

\* context: the lines start + 1 .. end (lines.slice(start, end)), each with
\* its number, the line numbered line with the pointer
contextLines(lines, line, start, end) ==
  [i \in 1..(IF end > start THEN end - start ELSE 0) |->
     (IF start + i = line THEN <<" ", ">", ">", " ">> ELSE <<" ", " ", " ", " ">>)
       \o ToDigits(start + i) \o <<"|", " ">> \o lines[start + i]]

\* withContext that puts the message of a new Error in place of the original
\* message and hands on a new object
withContextReplaced(error, name, line, context) ==
  [error EXCEPT !.object = 0,
                !.message = name \o <<":">> \o ToDigits(line) \o <<NL>>
                              \o JoinLines(context) \o <<NL, NL>> \o <<"E", "r", "r", "o", "r">>]

\* error.message = `${name}:${line}\n${context.join('\n')}\n\n${error.message}`
withContext(error, name, line, context) ==
  [error EXCEPT !.message = name \o <<":">> \o ToDigits(line) \o <<NL>>
                              \o JoinLines(context) \o <<NL, NL>> \o error.message]

\* throwWithContext without the test of the stack: every failure is mapped
throwWithContextAlways(error, source) ==
  withContext(error, source.name, error.g - 2,
    contextLines(source.lines, error.g - 2,
                 IF error.g - 2 - 3 > 0 THEN error.g - 2 - 3 ELSE 0,
                 IF error.g - 2 + 2 < Len(source.lines) THEN error.g - 2 + 2
                 ELSE Len(source.lines)))

\* throwWithContext(error, source): the failure it throws
throwWithContext(error, source) ==
  IF ~error.marker THEN error
  ELSE withContext(error, source.name, error.g - 2,
         contextLines(source.lines, error.g - 2,
                      IF error.g - 2 - 3 > 0 THEN error.g - 2 - 3 ELSE 0,
                      IF error.g - 2 + 2 < Len(source.lines) THEN error.g - 2 + 2
                      ELSE Len(source.lines)))

\* the first occurrence of the identifier as a whole word in the expression
WordAt(v, ident) ==
  Min({i \in 1..Len(v) : /\ HasAt(v, i, ident)
                         /\ (i = 1 \/ ~IsWord(v[i - 1]))
                         /\ (i + Len(ident) > Len(v) \/ ~IsWord(v[i + Len(ident)]))}
      \cup {Len(v) + 1})

\* the line of the built function on which statement pc evaluates ident
LineOf(code, pc, ident) ==
  HeaderLines + 1 + NewlinesBefore(code, pc)
    + Newlines(SubSeq(code[pc].v, 1, WordAt(code[pc].v, ident) - 1))

-----------------------------------------------------------------------------
(* An invocation of the built function: a stack of activations, the body   *)
(* of the function at the bottom and the bodies of called blocks above.    *)

\* the deepest nesting of block calls before the engine's stack overflows
MaxDepth == 3

Frame(pc, stop, scope, parent, bound) ==
  [pc |-> pc, stop |-> stop, out |-> <<>>, scope |-> scope, parent |-> parent, vars |-> bound]

ValBinding(name, v) ==
  [name |-> name, kind |-> "val", val |-> v, start |-> 0, stop |-> 0, param |-> <<>>, def |-> 0]

NotFound == [name |-> <<>>, kind |-> "none", val |-> Undefined,
             start |-> 0, stop |-> 0, param |-> <<>>, def |-> 0]

\* the names the closure (or function body) scope declares with const
Declared(code, scope) ==
  {code[j].v : j \in {m \in 1..Len(code) : code[m].k = "blockStart"
                                            /\ Enclosing(code, m) = scope}}

\* identifier resolution: the activation's bindings, a declaration not yet
\* initialised (temporal dead zone), the enclosing activations, then the
\* data context bound by with(__locals)
RECURSIVE Lookup(_, _, _, _, _)
Lookup(code, stack, fi, name, data) ==
  IF fi = 0
    THEN IF name \in DOMAIN data THEN ValBinding(name, data[name]) ELSE NotFound
  ELSE LET hit == {n \in 1..Len(stack[fi].vars) : stack[fi].vars[n].name = name}
       IN IF hit # {} THEN stack[fi].vars[CHOOSE n \in hit : TRUE]
          ELSE IF name \in Declared(code, stack[fi].scope) THEN NotFound
          ELSE Lookup(code, stack, stack[fi].parent, name, data)

\* fn.apply(null, [data, source, throwWithContext, escape, safe]) begins
\* (sync: the lowest activation that has run since the latest await)
NewCall(f, code, source, data) ==
  [fn |-> f, data |-> data, source |-> source, status |-> "running", result |-> <<>>,
   error |-> NoError, sync |-> 1, stack |-> <<Frame(1, Len(code) + 1, 0, 0, <<>>)>>]

\* Reject that hands the accumulated output to the caller
RejectPartial(inv, error) ==
  [inv EXCEPT !.status = "resolved", !.result = inv.stack[1].out]

\* a statement of the function throws
Reject(inv, error) == [inv EXCEPT !.status = "rejected", !.error = error]

\* the stack the engine records for a failure raised in invocation inv: the
\* frame of the built function is on it while no activation above it has
\* awaited, with the line of the failing statement or, for a failure in a
\* block, of the call of the block
Thrown(code, inv, error) ==
  IF inv.sync > 1 THEN error
  ELSE [error EXCEPT !.marker = TRUE,
                     !.g = LineOf(code, inv.stack[1].pc,
                                  IF Len(inv.stack) = 1 THEN error.at
                                  ELSE ParseExpr(code[inv.stack[1].pc].v).name)]

\* try { ... } catch (error) { __context(error, __source) }
Caught(code, r) ==
  IF r.inv.status = "rejected"
  THEN [r EXCEPT !.inv.error = throwWithContext(Thrown(code, r.inv, r.inv.error), r.inv.source)]
  ELSE r

\* __output += ... in the activation on top of the stack, then the next fragment
Emit(inv, s) ==
  LET n == Len(inv.stack)
  IN [inv EXCEPT !.stack[n].out = inv.stack[n].out \o s,
                 !.stack[n].pc = inv.stack[n].pc + 1]

\* Output without the call of __escape
OutputRaw(escape, k, v) == ToStr(v)

\* the string an output statement of kind k appends for the value v
Output(escape, k, v) == IF k = "escape" THEN ApplyEscape(escape, v) ELSE ToStr(v)

\* the end of an activation: the function resolves, or the block returns
\* __safe(__output) to the await of its caller
StepReturn(code, escape, inv, n) ==
  IF n = 1
    THEN [inv |-> [inv EXCEPT !.status = "resolved", !.result = inv.stack[n].out],
          susp |-> FALSE]
  ELSE [inv |-> Emit([inv EXCEPT !.stack = SubSeq(inv.stack, 1, n - 1)],
                     Output(escape, code[inv.stack[n - 1].pc].k, safe(inv.stack[n].out))),
        susp |-> TRUE]

\* const name = async (hints) => { ... };
StepBlock(code, inv, n, p, close) ==
  [inv |-> [inv EXCEPT
             !.stack[n].vars = Append(inv.stack[n].vars,
                [name |-> p.v, kind |-> "block", val |-> Undefined,
                 start |-> inv.stack[n].pc + 1, stop |-> close,
                 param |-> Trim(p.hints), def |-> n]),
             !.stack[n].pc = close + 1],
   susp |-> FALSE]

\* StepName with a block activation that starts on the accumulator of its
\* caller instead of an empty one
StepNameInherit(escape, inv, n, k, e, b, a) ==
  IF b.kind = "none" THEN [inv |-> Reject(inv, ReferenceError(e.name)), susp |-> FALSE]
  ELSE IF e.form = "ident" THEN [inv |-> Emit(inv, Output(escape, k, b.val)), susp |-> e.await]
  ELSE IF a.kind = "none" THEN [inv |-> Reject(inv, ReferenceError(e.arg)), susp |-> FALSE]
  ELSE IF n >= MaxDepth THEN [inv |-> Reject(inv, RangeError(e.name)), susp |-> FALSE]
  ELSE [inv |-> [inv EXCEPT !.stack = Append(inv.stack,
                   [Frame(b.start, b.stop, b.start - 1, b.def,
                          IF b.param = <<>> THEN <<>>
                          ELSE <<ValBinding(b.param, a.val)>>)
                    EXCEPT !.out = inv.stack[n].out])],
        susp |-> FALSE]

\* an output statement whose expression names b, with the argument a
StepName(escape, inv, n, k, e, b, a) ==
  IF b.kind = "none" THEN [inv |-> Reject(inv, ReferenceError(e.name)), susp |-> FALSE]
  ELSE IF e.form = "ident" THEN [inv |-> Emit(inv, Output(escape, k, b.val)), susp |-> e.await]
  ELSE IF a.kind = "none" THEN [inv |-> Reject(inv, ReferenceError(e.arg)), susp |-> FALSE]
  ELSE IF n >= MaxDepth THEN [inv |-> Reject(inv, RangeError(e.name)), susp |-> FALSE]
  ELSE [inv |-> [inv EXCEPT !.stack = Append(inv.stack,
                   Frame(b.start, b.stop, b.start - 1, b.def,
                         IF b.param = <<>> THEN <<>>
                         ELSE <<ValBinding(b.param, a.val)>>))],
        susp |-> FALSE]

\* __output += expression; or __output += __escape(expression);
StepExpr(code, escape, inv, n, k, e) ==
  IF e.form = "empty"
    THEN [inv |-> Emit(inv, Output(escape, k, Undefined)), susp |-> FALSE]
  ELSE StepName(escape, inv, n, k, e,
         Lookup(code, inv.stack, n, e.name, inv.data),
         IF e.arg = <<>> THEN ValBinding(<<>>, Undefined)
         ELSE Lookup(code, inv.stack, n, e.arg, inv.data))

StepKind(code, escape, inv, n, p) ==
  IF p.k = "text" THEN [inv |-> Emit(inv, DecodeLiteral(p.v).s), susp |-> FALSE]
  ELSE IF p.k = "blockStart"
    THEN StepBlock(code, inv, n, p, BlockClose(code, inv.stack[n].pc))
  ELSE IF p.k \in {"escape", "expression"}
    THEN StepExpr(code, escape, inv, n, p.k, ParseExpr(p.v))
  ELSE [inv |-> [inv EXCEPT !.stack[n].pc = inv.stack[n].pc + 1], susp |-> FALSE]

\* one fragment of the generated source, executed in invocation inv;
\* susp tells that the fragment ended in a completed await
StepPiece(code, escape, inv) ==
  IF inv.stack[Len(inv.stack)].pc = inv.stack[Len(inv.stack)].stop
    THEN StepReturn(code, escape, inv, Len(inv.stack))
  ELSE Caught(code,
         StepKind(code, escape, inv, Len(inv.stack), code[inv.stack[Len(inv.stack)].pc]))

\* the invocation runs until it suspends in an await, resolves or rejects
RECURSIVE RunSegment(_, _, _)
RunNext(code, escape, r) ==
  IF r.inv.status # "running" THEN r.inv
  ELSE IF r.susp THEN [r.inv EXCEPT !.sync = Len(r.inv.stack)]
  ELSE RunSegment(code, escape, r.inv)

RunSegment(code, escape, inv) == RunNext(code, escape, StepPiece(code, escape, inv))

\* the invocation run alone, with nothing else scheduled between its awaits
RECURSIVE RunAlone(_, _, _)
RunAlone(code, escape, inv) ==
  IF inv.status # "running" THEN inv
  ELSE RunAlone(code, escape, RunSegment(code, escape, inv))

-----------------------------------------------------------------------------
(* The Template class.                                                     *)

\* the value of an option that is not given
NotGiven == "undefined"

\* options.name: not given, or the name given
NoName == <<>>
Given(name) == <<name>>

NoData == [k \in {} |-> Undefined]

\* Template.constructor(template: string, options)
NewTemplate(text, options) ==
  [lines  |-> SplitLines(text),
   name   |-> IF options.name = NoName THEN DefaultName ELSE options.name[1],
   escape |-> IF options.escape = NotGiven THEN "xmlEscape" ELSE options.escape,
   fn     |-> 0]

\* a ?? b
Coalesce(a, b) == IF a.t \in {"undef", "null"} THEN b ELSE a

\* array[i] of a JavaScript array of strings (i from 0): undefined past its end
At(array, i) == IF i < Len(array) THEN Str(array[i + 1]) ELSE Undefined

\* the loop of mt from index i on
\* template += strings[i] ?? '' + values[i] ?? '', which the language reads
\* as (strings[i] ?? ('' + values[i])) ?? ''
RECURSIVE mtLoop(_, _, _)
mtLoop(strings, values, i) ==
  IF i >= Len(strings) THEN <<>>
  ELSE ToStr(Coalesce(Coalesce(At(strings, i), Str(ToStr(At(values, i)))), Str(<<>>)))
         \o mtLoop(strings, values, i + 1)

\* mt(strings, ...values)
mt(strings, values) == NewTemplate(mtLoop(strings, values, 0), [name |-> NoName, escape |-> NotGiven])

\* the SyntaxError of new AsyncFunction(...): no frame of a built function
\* is on its stack
SyntaxError == Failure("SyntaxError", <<"U", "n", "e", "x", "p", "e", "c", "t", "e", "d", " ", "t", "o", "k", "e", "n">>, <<>>)

\* inSource that leaves the message as it is
inSourceNot(error, source) == error

\* error.message += ` in ${source.name}`
inSource(error, source) == [error EXCEPT !.message = error.message \o <<" ", "i", "n", " ">> \o source.name]

\* the copy constructor with the cache slot of the Template it copies
NewTemplateShared(template, options) ==
  [lines  |-> template.lines,
   name   |-> IF options.name = NoName THEN template.name ELSE options.name[1],
   escape |-> IF options.escape = NotGiven THEN template.escape ELSE options.escape,
   fn     |-> template.fn]

\* Template.constructor(template: Template, options)
NewTemplateFrom(template, options) ==
  [lines  |-> template.lines,
   name   |-> IF options.name = NoName THEN template.name ELSE options.name[1],
   escape |-> IF options.escape = NotGiven THEN template.escape ELSE options.escape,
   fn     |-> 0]

\* _compileFn(code, escape, source): the function built, or 0 and the
\* failure thrown when the construction throws a SyntaxError
compileFn(F, code, escape, source) ==
  IF SyntaxOK(code)
  THEN [fns |-> Append(F, [code |-> code, escape |-> escape, source |-> source]),
        fn |-> Len(F) + 1, thrown |-> NoError]
  ELSE [fns |-> F, fn |-> 0, thrown |-> throwWithContext(inSource(SyntaxError, source), source)]

\* the state after compile() on instance t has built (or failed to build)
\* its function
compiled(T, S, t, built) ==
  [tmpl  |-> [T EXCEPT ![t].fn = built.fn],
   fns   |-> built.fns,
   stats |-> [S EXCEPT ![t] = S[t] + 1],
   fn    |-> built.fn,
   thrown |-> built.thrown]

\* compile() without the test of the cache slot
compileAlways(T, F, S, t) ==
  compiled(T, S, t,
    compileFn(F, compileTemplate(parseTemplate(T[t].lines)), T[t].escape,
              [lines |-> T[t].lines, name |-> T[t].name]))

\* Template.compile() on instance t: the instances, functions and counters
\* afterwards and the function returned (0 when compile() throws)
compile(T, F, S, t) ==
  IF T[t].fn = 0
  THEN compiled(T, S, t,
         compileFn(F, compileTemplate(parseTemplate(T[t].lines)), T[t].escape,
                   [lines |-> T[t].lines, name |-> T[t].name]))
  ELSE [tmpl |-> T, fns |-> F, stats |-> S, fn |-> T[t].fn, thrown |-> NoError]

\* fn(data) up to its first await, for the function with identity f
Call(F, f, data) ==
  RunSegment(F[f].code, F[f].escape, NewCall(f, F[f].code, F[f].source, data))

\* new Template(input.text, input.options)
Construct ==
  /\ tmpl = <<>>
  /\ tmpl' = <<NewTemplate(input.text, input.options)>>
  /\ stats' = <<0>>
  /\ UNCHANGED <<input, fns, rets, calls>>

\* new Template(tmpl[t], input.copy)
ConstructFrom(maxTemplates) ==
  \E t \in 1..Len(tmpl) :
    /\ Len(tmpl) < maxTemplates
    /\ tmpl' = Append(tmpl, NewTemplateFrom(tmpl[t], input.copy))
    /\ stats' = Append(stats, 0)
    /\ UNCHANGED <<input, fns, rets, calls>>

\* what a call of compile() or render() on instance t leaves: by names the
\* method, thrown the failure it threw to its caller
Compiled(t, c, by) ==
  /\ tmpl' = c.tmpl
  /\ fns' = c.fns
  /\ stats' = c.stats
  /\ rets' = Append(rets, [t |-> t, fn |-> c.fn, by |-> by, thrown |-> c.thrown])

\* template.compile()
Compile(maxRets) ==
  \E t \in 1..Len(tmpl) :
    /\ Len(rets) < maxRets
    /\ Compiled(t, compile(tmpl, fns, stats, t), "compile")
    /\ UNCHANGED <<input, calls>>

\* fn(data), for a function fn that a compile() call returned
Invoke(maxCalls) ==
  \E r \in 1..Len(rets) : \E data \in input.datas :
    /\ Len(calls) < maxCalls
    /\ rets[r].fn # 0
    /\ calls' = Append(calls, Call(fns, rets[r].fn, data))
    /\ UNCHANGED <<input, tmpl, fns, stats, rets>>

Rendered(t, data, c) ==
  /\ Compiled(t, c, "render")
  /\ calls' = IF c.fn = 0 THEN calls ELSE Append(calls, Call(c.fns, c.fn, data))

\* template.render(data): this.compile()(data)
Render(maxRets, maxCalls) ==
  \E t \in 1..Len(tmpl) : \E data \in input.datas :
    /\ Len(rets) < maxRets
    /\ Len(calls) < maxCalls
    /\ Rendered(t, data, compile(tmpl, fns, stats, t))
    /\ UNCHANGED input

\* Resume with one output accumulator for all invocations: the resumed
\* invocation continues on what the latest invocation has written
ResumeShared ==
  \E c \in 1..Len(calls) :
    /\ calls[c].status = "running"
    /\ calls' = [calls EXCEPT ![c] =
                   RunSegment(fns[calls[c].fn].code, fns[calls[c].fn].escape,
                     [calls[c] EXCEPT !.stack[1].out = calls[Len(calls)].stack[1].out])]
    /\ UNCHANGED <<input, tmpl, fns, stats, rets>>

\* a suspended invocation is resumed and runs to its next await
Resume ==
  \E c \in 1..Len(calls) :
    /\ calls[c].status = "running"
    /\ calls' = [calls EXCEPT ![c] = RunSegment(fns[calls[c].fn].code,
                                                fns[calls[c].fn].escape, calls[c])]
    /\ UNCHANGED <<input, tmpl, fns, stats, rets>>

\* the promise an invocation has settled
Outcome(r) == [status |-> r.status, result |-> r.result, error |-> r.error]

\* the promise of an invocation that runs alone on the source code, or the
\* failure thrown when the function cannot be built
RunOf(code, escape, source, data) ==
  IF ~SyntaxOK(code)
  THEN [status |-> "thrown", result |-> <<>>,
        error |-> throwWithContext(inSource(SyntaxError, source), source)]
  ELSE Outcome(RunAlone(code, escape, NewCall(0, code, source, data)))

\* the pipeline run on its own: Template.render(text, data, options)
RenderOf(text, data, escape) ==
  RunOf(compileTemplate(parseTemplate(SplitLines(text))), escape,
        [lines |-> SplitLines(text), name |-> DefaultName], data)

-----------------------------------------------------------------------------
(* Specifications.  A run starts from the arguments in input: a template   *)
(* text, the TemplateOptions and the data contexts of the invocations.     *)

\* the character sequences over the alphabet A of length at most n
SeqsUpTo(A, n) == UNION {[1..m -> A] : m \in 0..n}

Options(name, escape) == [name |-> name, escape |-> escape]

InitWith(inputs) ==
  /\ input \in inputs
  /\ tmpl = <<>>
  /\ fns = <<>>
  /\ stats = <<>>
  /\ rets = <<>>
  /\ calls = <<>>

\* a call that has resolved
Resolved(c) == c \in 1..Len(calls) /\ calls[c].status = "resolved"

\* the syntax of the template language: a tag, a block marker
Tag(type, body, close) == <<"<", "%">> \o type \o body \o close \o <<"%", ">">>
BlockStart(name, hints) == <<"<", "{">> \o name \o hints \o <<"}", ">">>
BlockEnd(name) == <<"<", "{", "/">> \o name \o <<"}", ">">>

\* data contexts that bind the name a
DataA(v) == (<<"a">> :> v)

-----------------------------------------------------------------------------
(* Literal text (C1).                                                      *)

MaxTextLen == 4

TextChars == {"a", " ", NL, CR, "'", "\\", "%", "<"}

TextInputs ==
  {[text |-> t, options |-> Options(NoName, NotGiven), datas |-> {NoData}, shape |-> <<>>] :
     t \in SeqsUpTo(TextChars, MaxTextLen)}

NextRender == Construct \/ Render(1, 1)

SpecText == InitWith(TextInputs) /\ [][NextRender]_vars

\* no tag opener, no block marker and no % that leads a line
LiteralOnly(t) ==
  /\ \A i \in 1..(Len(t) - 1) : ~(t[i] = "<" /\ t[i + 1] \in {"%", "{"})
  /\ \A i \in 1..Len(t) :
       t[i] = "%" => \E j \in 1..(i - 1) :
                       /\ ~IsSpace(t[j])
                       /\ \A m \in (j + 1)..(i - 1) : t[m] \notin {NL, CR}

\* the text with every CR LF pair replaced by LF
RECURSIVE CrLfToLf(_)
CrLfToLf(t) ==
  IF t = <<>> THEN <<>>
  ELSE IF Len(t) >= 2 /\ t[1] = CR /\ t[2] = NL THEN <<NL>> \o CrLfToLf(SubSeq(t, 3, Len(t)))
  ELSE <<Head(t)>> \o CrLfToLf(Tail(t))

\* C1 as stated: a template of literal text renders to exactly itself,
\* every line ending (LF, CRLF, lone CR) preserved.
C1_ByteForByte ==
  (LiteralOnly(input.text) /\ rets # <<>>)
    => /\ Len(calls) = Len(rets)
       /\ \A c \in 1..Len(calls) : Resolved(c) /\ calls[c].result = input.text

\* C1 amended: a template of literal text renders to itself with every
\* CR LF pair replaced by LF; every other character, a lone CR and a final
\* line ending included, is preserved.
C1_LiteralText ==
  (LiteralOnly(input.text) /\ rets # <<>>)
    => /\ Len(calls) = Len(rets)
       /\ \A c \in 1..Len(calls) : Resolved(c) /\ calls[c].result = CrLfToLf(input.text)

C1_Witness ==
  /\ Resolved(1)
  /\ LiteralOnly(input.text)
  /\ \E i \in 1..(Len(input.text) - 1) : input.text[i] = CR /\ input.text[i + 1] = NL
  /\ \E i \in 1..Len(input.text) : input.text[i] = "'"
  /\ calls[1].result = CrLfToLf(input.text)

-----------------------------------------------------------------------------
(* compile(), render() and invocations of the compiled function on one     *)
(* Template instance (C2, C3).                                             *)

MaxParts == 2
MaxRets == 2
MaxCalls == 2

\* the fragments the templates are built of: text, an expression, an
\* expression that awaits, a block definition, a block call that awaits, and
\* an empty raw expression, which is a SyntaxError
CallTokens ==
  { <<"x">>,
    Tag(<<"=">>, <<" ", "a", " ">>, <<>>),
    Tag(<<"=">>, <<" ">> \o AWAIT \o <<" ", "a", " ">>, <<>>),
    BlockStart(<<"f">>, <<"(", "b", ")">>) \o <<"y">>
      \o Tag(<<"=">>, <<" ", "b", " ">>, <<>>) \o BlockEnd(<<"f">>),
    Tag(<<"=">>, <<" ">> \o AWAIT \o <<" ", "f", "(", "a", ")", " ">>, <<>>),
    Tag(<<"=", "=">>, <<" ">>, <<>>) }

CallInputs ==
  {[text    |-> Flatten(ts),
    options |-> Options(NoName, NotGiven),
    datas   |-> {DataA(Str(<<"1">>)), DataA(Str(<<"<", "2">>))},
    shape   |-> ts] : ts \in SeqsUpTo(CallTokens, MaxParts)}

NextCalls ==
  \/ Construct
  \/ Compile(MaxRets)
  \/ Render(MaxRets, MaxCalls)
  \/ Invoke(MaxCalls)
  \/ Resume

SpecCalls == InitWith(CallInputs) /\ [][NextCalls]_vars

\* C2: on a Template instance whose function construction succeeds, after
\* any sequence of compile() and render() calls the parser, the generator
\* and the function constructor have run exactly once, the cache slot holds
\* the one function built, and every compile() call returned that function.
C2_CompileOnce ==
  \A t \in 1..Len(tmpl) :
    (rets # <<>> /\ \A r \in 1..Len(rets) : rets[r].fn # 0)
      => /\ stats[t] = 1
         /\ Len(fns) = 1
         /\ tmpl[t].fn = 1
         /\ \A r \in 1..Len(rets) : rets[r].fn = tmpl[t].fn

C2_Witness ==
  /\ Len(rets) = MaxRets
  /\ Len(calls) = MaxCalls
  /\ \A r \in 1..Len(rets) : rets[r].fn = 1
  /\ stats = <<1>>

\* C3: however the in-flight invocations of one compiled function are
\* interleaved at their awaits, every invocation goes on to the outcome it
\* has when it runs alone on its data context, and neither the cached
\* function nor the Source changes.
C3_Isolation ==
  LET code == compileTemplate(parseTemplate(SplitLines(input.text)))
  IN /\ \A c \in 1..Len(calls) :
          Outcome(RunAlone(code, "xmlEscape", calls[c]))
            = RunOf(code, "xmlEscape",
                    [lines |-> SplitLines(input.text), name |-> DefaultName], calls[c].data)
     /\ \A t \in 1..Len(tmpl) : tmpl[t].lines = SplitLines(input.text)
     /\ \A f \in 1..Len(fns) :
          fns[f] = [code   |-> code,
                    escape |-> "xmlEscape",
                    source |-> [lines |-> SplitLines(input.text), name |-> DefaultName]]

\* two invocations with different data contexts in flight, both suspended
\* in an await, the first one further on than the second
C3_Witness ==
  /\ Len(calls) = 2
  /\ calls[1].data # calls[2].data
  /\ calls[1].status = "running" /\ calls[2].status = "running"
  /\ calls[1].stack[1].pc > calls[2].stack[1].pc
  /\ calls[1].stack[1].out # calls[2].stack[1].out

-----------------------------------------------------------------------------
(* Expression tags and expression lines (C4).                              *)

\* the values of the expression: strings with and without the characters
\* xmlEscape replaces, a SafeString, null and undefined
ExprValues ==
  { Str(<<"o", "k">>), Str(<<>>), Str(<<"<", "b", ">", "&", "'", "\"">>), safe(<<"<", "b", ">", "&">>), JsNull, Undefined }

\* the four forms, each with the text that may stand before and after it
ExprForms ==
  [form : {"tagEscape", "tagRaw"},
   pre : {<<>>, <<"x">>, <<" ">>, <<"x", NL>>}, indent : {<<>>},
   post : {<<>>, <<"y">>, <<" ">>, <<NL>>, <<NL, "y">>}]
  \cup
  [form : {"lineEscape", "lineRaw"},
   pre : {<<>>, <<"x", NL>>}, indent : {<<>>, <<" ", " ">>},
   post : {<<>>, <<NL>>, <<NL, "y">>}]

\* the text of a form around the expression e
ExprText(s, e) ==
  s.pre \o s.indent
    \o (IF s.form = "tagEscape" THEN Tag(<<"=">>, e, <<>>)
        ELSE IF s.form = "tagRaw" THEN Tag(<<"=", "=">>, e, <<>>)
        ELSE IF s.form = "lineEscape" THEN <<"%", "=">> \o e
        ELSE <<"%", "=", "=">> \o e)
    \o s.post

ExprInputs ==
  {[text    |-> ExprText(s, e),
    options |-> Options(NoName, f),
    datas   |-> {DataA(v)},
    shape   |-> [form |-> s.form, pre |-> s.pre, indent |-> s.indent,
                  post |-> s.post, value |-> v]] :
     s \in ExprForms, e \in {<<" ", "a", " ">>, <<"a">>}, v \in ExprValues,
     f \in EscapeFunctions \cup {NotGiven}}

SpecExpr == InitWith(ExprInputs) /\ [][NextRender]_vars

\* C4: an escaped-expression tag or line appends exactly f(v), for the
\* configured escape function f (xmlEscape when none is configured), and a
\* raw-expression tag or line appends v stringified, to what stands before
\* and after it.
C4_Expression ==
  rets # <<>>
    => /\ Len(calls) = 1
       /\ Resolved(1)
       /\ calls[1].result =
            input.shape.pre
              \o (IF input.shape.form \in {"tagRaw", "lineRaw"}
                    THEN ToStr(input.shape.value)
                  ELSE IF input.options.escape = "plus"
                    THEN <<"+">> \o ToStr(input.shape.value)
                  ELSE xmlEscape(input.shape.value))
              \o input.shape.post

\* an escaped line with a string that xmlEscape changes, between two lines
C4_Witness ==
  /\ Resolved(1)
  /\ input.shape.form = "lineEscape"
  /\ input.options.escape = NotGiven
  /\ input.shape.value = Str(<<"<", "b", ">", "&", "'", "\"">>)
  /\ input.shape.pre # <<>> /\ input.shape.post = <<NL, "y">>
  /\ calls[1].result = <<"x", NL, "&", "l", "t", ";", "b", "&", "g", "t", ";", "&", "a", "m", "p", ";", "&", "#", "3", "9", ";", "&", "q", "u", "o", "t", ";", NL, "y">>

-----------------------------------------------------------------------------
(* Blocks: definition and invocation (C5, C6).                             *)

MaxBody == 2
MaxUses == 2

\* the fragments of a block body: text that xmlEscape would change, the
\* parameter of the block, text with white space
BodyTokens == { <<"<", "i", ">">>, Tag(<<"=">>, <<" ", "b", " ">>, <<>>), <<"y", " ">> }

\* a call of the block f in the escaping or the raw form, followed by a comma
BlockUse(u) ==
  Tag(IF u.raw THEN <<"=", "=">> ELSE <<"=">>, <<" ">> \o AWAIT \o <<" ", "f", "(">> \o u.arg \o <<")", " ">>, <<>>) \o <<",">>

\* text, the definition of the block f with the parameter b, and its uses
BlockText(s) ==
  s.pre \o BlockStart(<<"f">>, <<"(", "b", ")">>) \o Flatten(s.body) \o BlockEnd(<<"f">>)
    \o Flatten([i \in 1..Len(s.uses) |-> BlockUse(s.uses[i])])

BlockData == (<<"a">> :> Str(<<"1">>)) @@ (<<"c">> :> Str(<<"<", "2">>))

BlockInputs ==
  {[text    |-> BlockText([pre |-> pre, body |-> body, uses |-> uses]),
    options |-> Options(NoName, NotGiven),
    datas   |-> {BlockData},
    shape   |-> [pre |-> pre, body |-> body, uses |-> uses]] :
     pre \in {<<>>, <<"x">>},
     body \in SeqsUpTo(BodyTokens, MaxBody),
     uses \in SeqsUpTo([raw : BOOLEAN, arg : {<<"a">>, <<"c">>}], MaxUses)}

NextBlocks == Construct \/ Render(1, 1) \/ Resume

SpecBlocks == InitWith(BlockInputs) /\ [][NextBlocks]_vars

\* the outcome the invocation c goes on to
Settled(c) == Outcome(RunAlone(fns[calls[c].fn].code, fns[calls[c].fn].escape, calls[c]))

\* C5: with the default escape function, a template that embeds the results
\* of a block in the escaping form renders what the same template renders
\* with every one of them embedded in the raw form.
C5_BlockResultSafe ==
  rets # <<>>
    => /\ Len(calls) = 1
       /\ Settled(1).status = "resolved"
       /\ Settled(1) = RenderOf(BlockText([input.shape EXCEPT
                          !.uses = [i \in 1..Len(input.shape.uses) |->
                                      [input.shape.uses[i] EXCEPT !.raw = TRUE]]]),
                          BlockData, "xmlEscape")

\* two results embedded in the escaping form, of a body that holds markup
\* and an escaped parameter
C5_Witness ==
  /\ Resolved(1)
  /\ input.shape.body = << <<"<", "i", ">">>, Tag(<<"=">>, <<" ", "b", " ">>, <<>>) >>
  /\ input.shape.uses = << [raw |-> FALSE, arg |-> <<"c">>], [raw |-> FALSE, arg |-> <<"a">>] >>
  /\ calls[1].result = input.shape.pre \o <<"<", "i", ">", "&", "l", "t", ";", "2", ",", "<", "i", ">", "1", ",">>

\* what the body of the block renders with the parameter b bound to v
BodyOf(body, v) == RenderOf(Flatten(body), (<<"b">> :> v), "xmlEscape").result

\* C6: the definition of a block appends nothing where it stands, and N
\* uses of the block append, in call order, N renderings of its body, each
\* with the argument of its use.
C6_BlockCopies ==
  rets # <<>>
    => /\ Len(calls) = 1
       /\ Settled(1).status = "resolved"
       /\ Settled(1).result =
            input.shape.pre
              \o Flatten([i \in 1..Len(input.shape.uses) |->
                   BodyOf(input.shape.body, BlockData[input.shape.uses[i].arg]) \o <<",">>])

\* two uses with different arguments of a body that reads its parameter,
\* after text
C6_Witness ==
  /\ Resolved(1)
  /\ input.shape.pre = <<"x">>
  /\ input.shape.body = << <<"y", " ">>, Tag(<<"=">>, <<" ", "b", " ">>, <<>>) >>
  /\ input.shape.uses = << [raw |-> TRUE, arg |-> <<"a">>], [raw |-> FALSE, arg |-> <<"c">>] >>
  /\ calls[1].result = <<"x", "y", " ", "1", ",", "y", " ", "&", "l", "t", ";", "2", ",">>

-----------------------------------------------------------------------------
(* The literal-escape forms (C7).                                          *)

MaxTokens == 3

\* the fragments: the opener <%% and the rest of a tag, the double-brace
\* markers, text, white space and a line break
ReplaceTokens ==
  { <<"<", "%", "%">>, <<"=", " ", "a", " ", "%", ">">>, <<"<", "{", "{", "f", "}", "}", ">">>, <<"<", "{", "{", "/", "f", "}", "}", ">">>, <<"<", "{", "{", "f", "(", "a", ")", "}", "}", ">">>, <<"x">>, <<" ">>, <<NL>> }

ReplaceInputs ==
  {[text    |-> Flatten(ts),
    options |-> Options(NoName, NotGiven),
    datas   |-> {NoData},
    shape   |-> ts] : ts \in SeqsUpTo(ReplaceTokens, MaxTokens)}

SpecReplace == InitWith(ReplaceInputs) /\ [][NextRender]_vars

\* the text a fragment stands for
Literal(token) ==
  IF token = <<"<", "%", "%">> THEN <<"<", "%">>
  ELSE IF token = <<"<", "{", "{", "f", "}", "}", ">">> THEN <<"<", "{", "f", "}", ">">>
  ELSE IF token = <<"<", "{", "{", "/", "f", "}", "}", ">">> THEN <<"<", "{", "/", "f", "}", ">">>
  ELSE IF token = <<"<", "{", "{", "f", "(", "a", ")", "}", "}", ">">> THEN <<"<", "{", "f", "(", "a", ")", "}", ">">>
  ELSE token

\* C7: in text, <%% renders <% and what follows it, a %> included, renders
\* as it stands; every double-brace marker renders the single-brace marker
\* and defines no block.
C7_LiteralForms ==
  rets # <<>>
    => /\ Len(calls) = 1
       /\ Resolved(1)
       /\ calls[1].result = Flatten([i \in 1..Len(input.shape) |-> Literal(input.shape[i])])

\* the example of the claim, after a double-brace marker
C7_Witness ==
  /\ Resolved(1)
  /\ input.shape = << <<"<", "{", "{", "f", "(", "a", ")", "}", "}", ">">>, <<"<", "%", "%">>, <<"=", " ", "a", " ", "%", ">">> >>
  /\ calls[1].result = <<"<", "{", "f", "(", "a", ")", "}", ">", "<", "%", "=", " ", "a", " ", "%", ">">>

-----------------------------------------------------------------------------
(* The trimming terminator (C8, C9).                                       *)

\* a physical line: what leads it, a tag of one of the four kinds, closed
\* with =%> or with %>, and what trails the tag on the line (nothing, white
\* space, text, a tag closed with %> or a tag closed with =%>)
TrimShapes ==
  [lead  : {<<>>, <<" ", " ">>, <<"	">>, <<"x">>, <<"x", " ">>},
   type  : {<<"=">>, <<"=", "=">>, <<"#">>, <<>>},
   close : {<<"=">>, <<>>},
   trail : {<<>>, <<" ">>, <<"y">>, Tag(<<"=">>, <<" ", "a", " ">>, <<>>), Tag(<<"=">>, <<" ", "a", " ">>, <<"=">>)},
   next  : {<<>>, <<"z">>, <<" ", "z">>}]

\* the line, its line break and the text of the next line
TrimText(s) ==
  s.lead \o Tag(s.type, IF s.type \in {<<"=">>, <<"=", "=">>} THEN <<" ", "a", " ">> ELSE <<" ", ";", " ">>, s.close)
    \o s.trail \o <<NL>> \o s.next

TrimInputs ==
  {[text    |-> TrimText(s),
    options |-> Options(NoName, NotGiven),
    datas   |-> {DataA(Str(<<"2">>))},
    shape   |-> s] : s \in TrimShapes}

SpecTrim == InitWith(TrimInputs) /\ [][NextRender]_vars

\* a tag of the line is closed with =%>
HasTrimTag(s) == s.close = <<"=">> \/ s.trail = Tag(<<"=">>, <<" ", "a", " ">>, <<"=">>)

\* the line ends with =%>
EndsWithTrim(s) ==
  \/ s.close = <<"=">> /\ s.trail = <<>>
  \/ s.trail = Tag(<<"=">>, <<" ", "a", " ">>, <<"=">>)

\* C8 as stated: whenever a tag on a physical line is closed with =%>, the
\* newline that would follow the line is not emitted.
C8_AnyTrimTag ==
  rets # <<>>
    => /\ Len(calls) = 1
       /\ Resolved(1)
       /\ HasTrimTag(input.shape) => Newlines(calls[1].result) = 0

\* C8 amended: the newline that would follow a physical line is not emitted
\* when the line ends with the terminator =%>; it is emitted when anything,
\* white space included, follows the terminator on the line, as it is after
\* a line without the terminator.
C8_TrimAtLineEnd ==
  rets # <<>>
    => /\ Len(calls) = 1
       /\ Resolved(1)
       /\ Newlines(calls[1].result) = IF EndsWithTrim(input.shape) THEN 0 ELSE 1

\* a line that ends with =%> after text, followed by a text line
C8_Witness ==
  /\ Resolved(1)
  /\ input.shape.lead = <<"x">>
  /\ input.shape.type = <<"=">>
  /\ EndsWithTrim(input.shape)
  /\ input.shape.trail = <<>>
  /\ calls[1].result = <<"x", "2", "z">>

\* C9: a line of leading white space and a single tag closed with =%> at
\* the end of the line renders neither the white space nor the newline.
C9_LeadingWhitespace ==
  (/\ rets # <<>>
   /\ input.shape.lead \in {<<" ", " ">>, <<"	">>}
   /\ input.shape.type \in {<<"=">>, <<"=", "=">>}
   /\ input.shape.close = <<"=">>
   /\ input.shape.trail = <<>>)
    => /\ Len(calls) = 1
       /\ Resolved(1)
       /\ calls[1].result = <<"2">> \o input.shape.next

-----------------------------------------------------------------------------
(* Code lines and comment lines (C10).                                     *)

MaxLines == 3

\* text lines, the empty line included
TextLines == { <<"x">>, <<" ", "y">>, <<>> }

\* code lines and comment lines, with and without indentation and content
InvisibleLines == { <<"%">>, <<"%", " ", ";">>, <<" ", " ", "%", " ", ";">>, <<"%", "#", " ", "c">>, <<"	", "%", "#", "c", " ", "<", "%", "=", " ", "a", " ", "%", ">">>, <<" ", " ", "%", "#">> }

LineInputs ==
  {[text    |-> JoinLines(ls),
    options |-> Options(NoName, NotGiven),
    datas   |-> {NoData},
    shape   |-> ls] :
     ls \in UNION {[1..n -> TextLines \cup InvisibleLines] : n \in 1..MaxLines}}

SpecLines == InitWith(LineInputs) /\ [][NextRender]_vars

\* what line i of the template contributes: a text line its characters and,
\* unless it is the last line, its newline; a code or comment line nothing
Contribution(ls, i) ==
  IF ls[i] \in InvisibleLines THEN <<>>
  ELSE ls[i] \o (IF i < Len(ls) THEN <<NL>> ELSE <<>>)

\* C10: a code line and a comment line contribute no character to the
\* output, at any position in the template: the output is what the other
\* lines contribute.
C10_InvisibleLines ==
  rets # <<>>
    => /\ Len(calls) = 1
       /\ Resolved(1)
       /\ calls[1].result =
            Flatten([i \in 1..Len(input.shape) |-> Contribution(input.shape, i)])

\* a text line, an indented code line and a comment line that is the last line
C10_Witness ==
  /\ Resolved(1)
  /\ input.shape = << <<"x">>, <<" ", " ", "%", " ", ";">>, <<"%", "#", " ", "c">> >>
  /\ calls[1].result = <<"x", NL>>

-----------------------------------------------------------------------------
(* Expression lines (C11).                                                 *)

\* C11: an expression line that is not the last line of the template
\* contributes the result of its expression and exactly one newline, the
\* last line of the template contributes the result alone, and neither
\* contributes its indentation.
C11_ExpressionLine ==
  (rets # <<>> /\ input.shape.form \in {"lineEscape", "lineRaw"})
    => /\ Len(calls) = 1
       /\ Resolved(1)
       /\ calls[1].result =
            input.shape.pre
              \o Output(IF input.options.escape = NotGiven THEN "xmlEscape"
                        ELSE input.options.escape,
                        IF input.shape.form = "lineEscape" THEN "escape" ELSE "expression",
                        input.shape.value)
              \o (IF input.shape.post = <<>> THEN <<>> ELSE <<NL>>)
              \o (IF input.shape.post = <<>> THEN <<>> ELSE Tail(input.shape.post))

\* an indented raw expression line between two text lines
C11_Witness ==
  /\ Resolved(1)
  /\ input.shape.form = "lineRaw"
  /\ input.shape.indent = <<" ", " ">>
  /\ input.shape.pre = <<"x", NL>> /\ input.shape.post = <<NL, "y">>
  /\ input.shape.value = Str(<<"o", "k">>)
  /\ calls[1].result = <<"x", NL, "o", "k", NL, "y">>

-----------------------------------------------------------------------------
(* Expression tags that span several lines (C12).                          *)

\* the line fragments of the body of a tag that spans two or three lines
FoldBodies ==
  { <<<<" ", "a">>, <<>>>>, <<<<" ", "a">>, <<>>, <<" ">>>>, <<<<" ", "a", ";">>, <<>>>>, <<<<" ", "a", ";">>, <<>>, <<>>>>,
    <<<<" ">>, <<"a", " ">>>>, <<<<>>, <<"a">>>>, <<<<>>, <<>>, <<"a", ";">>>>, <<<<" ", "a", ";", " ">>, <<" ">>>>,
    <<<<" ", "a", " ">>, <<";">>>> }

FoldInputs ==
  {[text    |-> pre \o Tag(type, JoinLines(body), <<>>) \o post,
    options |-> Options(NoName, NotGiven),
    datas   |-> {DataA(v)},
    shape   |-> [type |-> type, body |-> body, pre |-> pre, post |-> post, value |-> v]] :
     type \in {<<"=">>, <<"=", "=">>}, body \in FoldBodies,
     pre \in {<<>>, <<"x">>, <<"x", NL>>}, post \in {<<>>, <<"y">>, <<NL, "y">>},
     v \in {Str(<<"o", "k">>), Str(<<"<", "b", ">">>)}}

SpecFold == InitWith(FoldInputs) /\ [][NextRender]_vars

\* the statements of the generated source that append the value of an
\* expression
ExprPieces(code) == {j \in 1..Len(code) : code[j].k \in {"escape", "expression"}}

\* C12: an expression tag whose body spans two or more lines is emitted as
\* one output-append statement, the interior line breaks produce no output,
\* and the generated source has one line break for every line of the
\* template, those the tag spans included.
C12_MultiLineTag ==
  rets # <<>>
    => /\ Len(calls) = 1 /\ Resolved(1)
       /\ Cardinality(ExprPieces(fns[1].code)) = 1
       /\ calls[1].result = input.shape.pre
            \o Output("xmlEscape", IF input.shape.type = <<"=">> THEN "escape" ELSE "expression",
                      input.shape.value)
            \o input.shape.post
       /\ NewlinesBefore(fns[1].code, Len(fns[1].code) + 1) = Len(SplitLines(input.text))

-----------------------------------------------------------------------------
(* The line a failure is reported for (C13).                               *)

MaxPrelude == 2

\* whole lines of every kind: text, empty, code line, comment line,
\* expression line, trimmed tag, a block, tags that span several lines
PreludeItems ==
  { <<"x">>, <<>>, <<"%", " ", ";">>, <<"%", "#", " ", "c">>, <<"%", "=", " ", "a">>, <<"<", "%", "=", " ", "a", " ", "=", "%", ">">>, <<"<", "{", "f", "}", ">", NL, "x", NL, "<", "{", "/", "f", "}", ">">>,
    <<"<", "%", "=", "=", " ", "a", NL, NL, "%", ">">>, <<"<", "%", NL, "%", ">">>, <<"<", "%", "#", " ", "c", NL, "d", " ", "%", ">">>, <<"<", "%", "=", " ", "a", ";", NL, "%", ">", "y">> }

\* the lines that evaluate the unbound name b
FailingLines == { <<"<", "%", "=", " ", "b", " ", "%", ">">>, <<"%", "=", " ", "b">>, <<" ", "x", " ", "<", "%", "=", "=", " ", "b", " ", "%", ">", " ">> }

\* (a block is defined once: a second const f is a SyntaxError)
PreludeInputs ==
  {[text    |-> JoinLines(pre \o <<failing>> \o post),
    options |-> Options(NoName, NotGiven),
    datas   |-> {DataA(Str(<<"v">>))},
    shape   |-> [pre |-> pre, failing |-> failing]] :
     pre \in {p \in SeqsUpTo(PreludeItems, MaxPrelude) :
                \A i, j \in 1..Len(p) : p[i] = <<"<", "{", "f", "}", ">", NL, "x", NL, "<", "{", "/", "f", "}", ">">> /\ p[j] = p[i] => i = j},
     failing \in FailingLines, post \in {<<>>, <<<<"z">>>>}}

SpecPrelude == InitWith(PreludeInputs) /\ [][NextRender]_vars

\* the 1-based number of the failing line
FailingLine == Newlines(JoinLines(input.shape.pre \o <<input.shape.failing>>)) + 1

\* C13: the generated source has k - 1 line breaks before the code of line
\* k, whatever lines precede it, and a failure of the code on line k is
\* reported with a message that begins with name:k.
C13_LineMapping ==
  rets # <<>>
    => /\ Len(calls) = 1 /\ calls[1].status = "rejected"
       /\ NewlinesBefore(fns[1].code, calls[1].stack[1].pc) = FailingLine - 1
       /\ HasAt(calls[1].error.message, 1, DefaultName \o <<":">> \o ToDigits(FailingLine) \o <<NL>>)

-----------------------------------------------------------------------------
(* throwWithContext on its own (C14, C15, C16): a failure, with or without *)
(* a frame of the built function on its stack, and the Source of a        *)
(* template of one to MaxSourceLines lines.                                *)

MaxSourceLines == 8

\* the failures: with the marker, the generated line g of one of the
\* template's n lines; without it, no line
MapperErrors(n) ==
  [object : {1, 2}, name : {"Error"}, message : {<<"T", "e", "s", "t">>, <<>>, <<"a", NL, "b">>}, at : {<<>>},
   marker : {TRUE}, g : (HeaderLines + 1)..(HeaderLines + n)]
  \cup
  [object : {1, 2}, name : {"Error"}, message : {<<"T", "e", "s", "t">>, <<>>, <<"a", NL, "b">>}, at : {<<>>},
   marker : {FALSE}, g : {0}]

\* the Sources of n lines and the failures for them
MapperInputsOf(n) ==
  {[text    |-> <<>>,
    options |-> Options(Given(name), NotGiven),
    datas   |-> {},
    error   |-> e,
    source  |-> [lines |-> [i \in 1..n |-> <<"l">> \o ToDigits(i * i)], name |-> name]] :
     name \in {DefaultName, <<"s", "r", "c", "/", "t", ".", "t", "m", "p", "l">>}, e \in MapperErrors(n)}

MapperInputs == UNION {MapperInputsOf(n) : n \in 1..MaxSourceLines}

\* __context(error, __source), called with the failure and Source of input
ThrowWithContext ==
  /\ rets = <<>>
  /\ rets' = <<[t |-> 0, fn |-> 0, by |-> "throwWithContext",
                thrown |-> throwWithContext(input.error, input.source)]>>
  /\ UNCHANGED <<input, tmpl, fns, stats, calls>>

NextMapper == ThrowWithContext

SpecMapper == InitWith(MapperInputs) /\ [][NextMapper]_vars

\* the lines lo .. hi with their numbers, line L with the pointer, joined
Window(lines, L, lo, hi) ==
  JoinLines([i \in 1..(hi - lo + 1) |->
               (IF lo + i - 1 = L THEN <<" ", ">", ">", " ">> ELSE <<" ", " ", " ", " ">>)
                 \o ToDigits(lo + i - 1) \o <<"|", " ">> \o lines[lo + i - 1]])

\* the message of a failure mapped to line L, for the context window w
Mapped(L, w) ==
  input.source.name \o <<":">> \o ToDigits(L) \o <<NL>> \o w \o <<NL, NL>> \o input.error.message

\* C14 as stated: the context of a failure mapped to line L of n lines is
\* the lines max(1, L - 3) .. min(n, L + 2), each with its number, line L
\* with the pointer.
C14_ThreeBefore ==
  (rets # <<>> /\ input.error.marker)
    => rets[1].thrown.message
         = Mapped(input.error.g - 2,
             Window(input.source.lines, input.error.g - 2,
                    IF input.error.g - 2 - 3 > 1 THEN input.error.g - 2 - 3 ELSE 1,
                    IF input.error.g - 2 + 2 < Len(input.source.lines)
                    THEN input.error.g - 2 + 2 ELSE Len(input.source.lines)))

\* C14 (amended): the context of a failure mapped to line L of n lines is
\* the lines max(1, L - 2) .. min(n, L + 2), two before through two after,
\* each with its number, and exactly line L with the pointer.
C14_TwoBefore ==
  (rets # <<>> /\ input.error.marker)
    => rets[1].thrown.message
         = Mapped(input.error.g - 2,
             Window(input.source.lines, input.error.g - 2,
                    IF input.error.g - 2 - 2 > 1 THEN input.error.g - 2 - 2 ELSE 1,
                    IF input.error.g - 2 + 2 < Len(input.source.lines)
                    THEN input.error.g - 2 + 2 ELSE Len(input.source.lines)))

\* a failure on line 6 of 8: the window is the lines 4 to 8
C14_Witness ==
  /\ rets # <<>>
  /\ input.error.marker /\ input.error.g = 8 /\ input.error.message = <<"T", "e", "s", "t">>
  /\ Len(input.source.lines) = 8 /\ input.source.name = DefaultName
  /\ rets[1].thrown.message
       = <<"t", "e", "m", "p", "l", "a", "t", "e", ":", "6", NL, " ", " ", " ", " ", "4", "|", " ", "l", "1", "6", NL, " ", " ", " ", " ", "5", "|", " ", "l", "2", "5", NL, " ", ">", ">", " ", "6", "|", " ", "l", "3", "6", NL, " ", " ", " ", " ", "7", "|", " ", "l", "4", "9", NL, " ", " ", " ", " ", "8", "|", " ", "l", "6", "4", NL, NL, "T", "e", "s", "t">>

\* the characters of s after the first n
Rest(s, n) == SubSeq(s, n + 1, Len(s))

\* the head of a mapped message: name, colon, line number, line break
MappedHead == input.source.name \o <<":">> \o ToDigits(input.error.g - 2) \o <<NL>>

\* the tail of a mapped message: two line breaks and the original message
MappedTail == <<NL, NL>> \o input.error.message

\* C15: a failure whose stack has the marker with generated line g is
\* thrown again as the same object, its message rewritten to name:L with
\* L = g - 2, a line break, the context lines joined by line breaks, two
\* line breaks and the original message; nothing else of it changes.
C15_MappedMessage ==
  (rets # <<>> /\ input.error.marker)
    => /\ rets[1].thrown = [input.error EXCEPT !.message = rets[1].thrown.message]
       /\ HasAt(rets[1].thrown.message, 1, MappedHead)
       /\ HasAt(rets[1].thrown.message,
                Len(rets[1].thrown.message) - Len(MappedTail) + 1, MappedTail)
       /\ Len(rets[1].thrown.message) >= Len(MappedHead) + Len(MappedTail)
       /\ LET lo == IF input.error.g - 2 - 2 > 1 THEN input.error.g - 2 - 2 ELSE 1
              context == SubSeq(rets[1].thrown.message, Len(MappedHead) + 1,
                                Len(rets[1].thrown.message) - Len(MappedTail))
          IN /\ Newlines(context) + 1 = Len(SplitLines(context))
             /\ \A i \in 1..Len(SplitLines(context)) :
                  Rest(SplitLines(context)[i], 4)
                    = ToDigits(lo + i - 1) \o <<"|", " ">> \o input.source.lines[lo + i - 1]

\* a failure with generated line 5 in a template named src/t.tmpl: line 3
C15_Witness ==
  /\ rets # <<>>
  /\ input.error.marker /\ input.error.g = 5 /\ input.error.message = <<"a", NL, "b">>
  /\ input.error.object = 2 /\ rets[1].thrown.object = 2
  /\ Len(input.source.lines) = 3 /\ input.source.name = <<"s", "r", "c", "/", "t", ".", "t", "m", "p", "l">>
  /\ rets[1].thrown.message = <<"s", "r", "c", "/", "t", ".", "t", "m", "p", "l", ":", "3", NL, " ", " ", " ", " ", "1", "|", " ", "l", "1", NL, " ", " ", " ", " ", "2", "|", " ", "l", "4", NL, " ", ">", ">", " ", "3", "|", " ", "l", "9", NL, NL, "a", NL, "b">>

\* C16: a failure whose stack has no marker is thrown again as it is: the
\* same object, the same message and fields, no line number, no context.
C16_Unmapped ==
  (rets # <<>> /\ ~input.error.marker) => rets[1].thrown = input.error

C16_Witness ==
  /\ rets # <<>>
  /\ ~input.error.marker /\ input.error.message = <<"T", "e", "s", "t">> /\ input.error.object = 2
  /\ Len(input.source.lines) = 8
  /\ rets[1].thrown.message = <<"T", "e", "s", "t">> /\ rets[1].thrown.object = 2

-----------------------------------------------------------------------------
(* Failures of compile() and render() (C17, C18, C19).                     *)

MaxFailLines == 2

\* lines that render, that fail after some output (in the body, and in a
\* block after an await), and that are a SyntaxError
FailLines ==
  { <<"x", "<", "%", "=", " ", "a", " ", "%", ">">>, <<"y", "<", "%", "=", " ", "b", " ", "%", ">">>, <<"<", "%", "=", " ", "a", "w", "a", "i", "t", " ", "a", " ", "%", ">", "z">>, <<"<", "%", "=", "=", " ", "%", ">">>,
    <<"<", "{", "f", "}", ">", "w", "<", "%", "=", " ", "a", "w", "a", "i", "t", " ", "a", " ", "%", ">", "<", "%", "=", " ", "b", " ", "%", ">", "<", "{", "/", "f", "}", ">", "<", "%", "=", " ", "a", "w", "a", "i", "t", " ", "f", "(", ")", " ", "%", ">">>, <<"<", "{", "/", "f", "}", ">">> }

FailInputs ==
  {[text    |-> JoinLines(ls),
    options |-> Options(name, NotGiven),
    datas   |-> {DataA(Str(<<"1">>))},
    shape   |-> ls] :
     ls \in SeqsUpTo(FailLines, MaxFailLines) \ {<<>>}, name \in {NoName, Given(<<"t", ".", "t", "m", "p", "l">>)}}

SpecFail == InitWith(FailInputs) /\ [][NextCalls]_vars

\* C17: every failure of render(), a failed construction of the function
\* included, is a rejection of the promise render() returns; render() never
\* throws to its caller.
C17_AlwaysRejected ==
  \A r \in 1..Len(rets) : rets[r].by = "render" => rets[r].thrown = NoError

\* C18: an invocation resolves with the output of the whole function body or
\* it rejects with a failure and returns nothing; the output accumulated
\* before a failure is never returned.
C18_TwoOutcomes ==
  \A c \in 1..Len(calls) :
    /\ calls[c].status \in {"running", "resolved", "rejected"}
    /\ calls[c].status = "running" => calls[c].result = <<>> /\ calls[c].error = NoError
    /\ calls[c].status = "resolved"
         => /\ calls[c].error = NoError
            /\ Len(calls[c].stack) = 1
            /\ calls[c].stack[1].pc = Len(fns[calls[c].fn].code) + 1
            /\ calls[c].result = calls[c].stack[1].out
    /\ calls[c].status = "rejected"
         => calls[c].result = <<>> /\ calls[c].error # NoError

\* an invocation that has appended x1 and y and then fails on line 2
C18_Witness ==
  /\ calls # <<>>
  /\ calls[1].status = "rejected"
  /\ calls[1].stack[1].out = <<"x", "1", NL, "y">>
  /\ calls[1].result = <<>>
  /\ HasAt(calls[1].error.message, 1, <<"t", "e", "m", "p", "l", "a", "t", "e", ":", "2", NL>>)

\* C19: when the construction of the function fails with a SyntaxError, the
\* failure thrown has " in <name>" appended to its message once, for the
\* configured name or the default name, and is otherwise what the mapper
\* leaves of a failure without a frame of a built function.
C19_SyntaxErrorNamed ==
  \A r \in 1..Len(rets) :
    IF rets[r].fn # 0 THEN rets[r].thrown = NoError
    ELSE rets[r].thrown
           = [object |-> 1, name |-> "SyntaxError", at |-> <<>>, marker |-> FALSE, g |-> 0,
              message |-> <<"U", "n", "e", "x", "p", "e", "c", "t", "e", "d", " ", "t", "o", "k", "e", "n", " ", "i", "n", " ">>
                            \o (IF input.options.name = NoName THEN <<"t", "e", "m", "p", "l", "a", "t", "e">>
                                ELSE input.options.name[1])]

\* two failed constructions of the function of the template named t.tmpl
C19_Witness ==
  /\ Len(rets) = 2
  /\ rets[1].fn = 0 /\ rets[2].fn = 0
  /\ stats = <<2>>
  /\ rets[1].thrown.message = <<"U", "n", "e", "x", "p", "e", "c", "t", "e", "d", " ", "t", "o", "k", "e", "n", " ", "i", "n", " ", "t", ".", "t", "m", "p", "l">>
  /\ rets[2].thrown.message = <<"U", "n", "e", "x", "p", "e", "c", "t", "e", "d", " ", "t", "o", "k", "e", "n", " ", "i", "n", " ", "t", ".", "t", "m", "p", "l">>

-----------------------------------------------------------------------------
(* The copy constructor (C20): a Template, Templates constructed from it   *)
(* with the options input.copy, compile() and render() on each of them.    *)

MaxTemplates == 2
MaxCopyRets == 3

CopyInputs ==
  {[text    |-> text,
    options |-> Options(name, escape),
    copy    |-> Options(copyName, copyEscape),
    datas   |-> {DataA(Str(<<"<", "1">>))},
    shape   |-> <<>>] :
     text \in {<<"x", "<", "%", "=", " ", "a", " ", "%", ">">>, <<"<", "%", "=", " ", "a", " ", "%", ">", NL, "y">>, <<"<", "%", "=", "=", " ", "%", ">">>},
     name \in {NoName, Given(<<"b", ".", "t", "m", "p", "l">>)}, escape \in {NotGiven, "plus"},
     copyName \in {NoName, Given(<<"d", ".", "t", "m", "p", "l">>)}, copyEscape \in {NotGiven, "plus", "xmlEscape"}}

NextCopy ==
  \/ Construct
  \/ ConstructFrom(MaxTemplates)
  \/ Compile(MaxCopyRets)
  \/ Render(MaxCopyRets, MaxCalls)

SpecCopy == InitWith(CopyInputs) /\ [][NextCopy]_vars

\* C20: a Template constructed from a Template t has t's lines, t's escape
\* function unless options.escape is given, t's name unless options.name is
\* given, and an empty cache, also when t is compiled; the construction
\* leaves every existing Template as it is; compile() and render() on one
\* Template change nothing of any other Template and only the cache of
\* their own, which receives a function built for that Template.
C20_CopyConstructor ==
  [][ /\ Len(tmpl') > Len(tmpl) /\ tmpl # <<>>
        => /\ \E b \in 1..Len(tmpl) :
                tmpl'[Len(tmpl')]
                  = [lines  |-> tmpl[b].lines,
                     name   |-> IF input.copy.name = <<>> THEN tmpl[b].name
                                ELSE input.copy.name[1],
                     escape |-> IF input.copy.escape = "undefined" THEN tmpl[b].escape
                                ELSE input.copy.escape,
                     fn     |-> 0]
           /\ \A u \in 1..Len(tmpl) : tmpl'[u] = tmpl[u]
           /\ fns' = fns
      /\ Len(rets') > Len(rets)
        => \A u \in 1..Len(tmpl) :
             IF u # rets'[Len(rets')].t THEN tmpl'[u] = tmpl[u]
             ELSE /\ tmpl'[u] = [tmpl[u] EXCEPT !.fn = rets'[Len(rets')].fn]
                  /\ tmpl[u].fn # 0 => tmpl'[u].fn = tmpl[u].fn
                  /\ (tmpl[u].fn = 0 /\ tmpl'[u].fn # 0)
                       => /\ tmpl'[u].fn \notin 1..Len(fns)
                          /\ fns'[tmpl'[u].fn].escape = tmpl[u].escape
                          /\ fns'[tmpl'[u].fn].source
                               = [lines |-> SplitLines(input.text), name |-> tmpl[u].name]
    ]_vars

\* a compiled Template and a Template constructed from it with another name
\* and escape function, compiled after it: each renders with its own function
C20_Witness ==
  /\ Len(tmpl) = 2
  /\ tmpl[1] = [lines |-> <<<<"x", "<", "%", "=", " ", "a", " ", "%", ">">>>>, name |-> <<"t", "e", "m", "p", "l", "a", "t", "e">>, escape |-> "xmlEscape", fn |-> 1]
  /\ tmpl[2] = [lines |-> <<<<"x", "<", "%", "=", " ", "a", " ", "%", ">">>>>, name |-> <<"d", ".", "t", "m", "p", "l">>, escape |-> "plus", fn |-> 2]
  /\ stats = <<1, 1>>
  /\ Len(rets) = 3 /\ rets[1].t = 1 /\ rets[2].t = 2 /\ rets[3].t = 1
  /\ Len(calls) = 2 /\ calls[1].fn = 2 /\ calls[2].fn = 1
  /\ calls[2].result = <<"x", "&", "l", "t", ";", "1">>
  /\ calls[1].result # calls[2].result

-----------------------------------------------------------------------------
(* xmlEscape on its own (C21): strings and SafeStrings over the five       *)
(* characters it replaces and two it does not, null and undefined.         *)

MaxEscLen == 3

EscapeInputs ==
  {[text    |-> <<>>,
    options |-> Options(NoName, NotGiven),
    datas   |-> {},
    value   |-> v] :
     v \in {Str(s) : s \in SeqsUpTo({"&", "<", ">", "\"", "'", "a", ";"}, MaxEscLen)}
           \cup {safe(s) : s \in SeqsUpTo({"&", "<", ">", "\"", "'", "a", ";"}, MaxEscLen)}
           \cup {JsNull, Undefined}}

\* xmlEscape(input.value), and xmlEscape of its result
XmlEscape ==
  /\ rets = <<>>
  /\ rets' = <<[value |-> xmlEscape(input.value),
                again |-> xmlEscape(Str(xmlEscape(input.value)))]>>
  /\ UNCHANGED <<input, tmpl, fns, stats, calls>>

NextEscape == XmlEscape

SpecEscape == InitWith(EscapeInputs) /\ [][NextEscape]_vars

\* the entity of a character: & < > " ' have one, every other character
\* stands for itself
Entity(c) ==
  CASE c = "&" -> <<"&", "a", "m", "p", ";">>
    [] c = "<" -> <<"&", "l", "t", ";">>
    [] c = ">" -> <<"&", "g", "t", ";">>
    [] c = "\"" -> <<"&", "q", "u", "o", "t", ";">>
    [] c = "'" -> <<"&", "#", "3", "9", ";">>
    [] OTHER -> <<c>>

\* C21: xmlEscape replaces every & < > " ' of a string by its entity and
\* leaves every other character, so that its result has none of < > " ' and
\* escaping the result of a string with & changes it again; a SafeString
\* gives its content as it is; null and undefined give their names.
C21_XmlEscape ==
  rets # <<>>
    => CASE input.value.t = "str"
              -> /\ rets[1].value
                      = Flatten([i \in 1..Len(input.value.s) |-> Entity(input.value.s[i])])
                 /\ \A i \in 1..Len(rets[1].value) :
                      rets[1].value[i] \notin {"<", ">", "\"", "'"}
                 /\ (\E i \in 1..Len(input.value.s) : input.value.s[i] = "&")
                      => rets[1].again # rets[1].value
         [] input.value.t = "safe" -> rets[1].value = input.value.s
         [] input.value.t = "null" -> rets[1].value = <<"n", "u", "l", "l">>
         [] OTHER -> rets[1].value = <<"u", "n", "d", "e", "f", "i", "n", "e", "d">>

\* the SafeString <&> is returned as it is
C21_Witness ==
  /\ rets # <<>>
  /\ input.value = safe(<<"<", "&", ">">>)
  /\ rets[1].value = <<"<", "&", ">">>
  /\ rets[1].again = <<"&", "l", "t", ";", "&", "a", "m", "p", ";", "&", "g", "t", ";">>

-----------------------------------------------------------------------------
(* stickyMatch on its own (C22): a cursor on the value input.text and a    *)
(* sequence of calls with START_RE and END_RE.  tmpl holds the cursor,     *)
(* stats the offsets the cursor has had, rets the matches returned.        *)

MaxStickyLen == 4
MaxMatches == 3

StickyInputs ==
  {[text |-> t, options |-> Options(NoName, NotGiven), datas |-> {}] :
     t \in SeqsUpTo({"<", "%", "=", ">", "a", NL}, MaxStickyLen)}

\* const sticky = {offset: 0, value: line}
NewSticky ==
  /\ tmpl = <<>>
  /\ tmpl' = <<[offset |-> 0, value |-> input.text]>>
  /\ stats' = <<0>>
  /\ UNCHANGED <<input, fns, rets, calls>>

Matched(r) ==
  /\ tmpl' = <<r.sticky>>
  /\ stats' = Append(stats, r.sticky.offset)
  /\ rets' = Append(rets, r.match)
  /\ UNCHANGED <<input, fns, calls>>

\* stickyMatch(sticky, START_RE)
StickyStart ==
  /\ tmpl # <<>> /\ Len(rets) < MaxMatches
  /\ Matched(stickyMatch(tmpl[1], StartMatch(tmpl[1].value, tmpl[1].offset)))

\* stickyMatch(sticky, END_RE)
StickyEnd ==
  /\ tmpl # <<>> /\ Len(rets) < MaxMatches
  /\ Matched(stickyMatch(tmpl[1], EndMatch(tmpl[1].value, tmpl[1].offset)))

NextSticky == NewSticky \/ StickyStart \/ StickyEnd

SpecSticky == InitWith(StickyInputs) /\ [][NextSticky]_vars

\* the text a match consumed: the leftovers, <% and the type of a START_RE
\* match; the value, the optional = and %> of an END_RE match
Consumed(m) ==
  IF "leftovers" \in DOMAIN m
  THEN m.leftovers \o <<"<", "%">>
         \o (CASE m.type = "%" -> <<"%">> [] m.type = "#" -> <<"#">> [] m.type = "=" -> <<"=">>
               [] m.type = "==" -> <<"=", "=">> [] OTHER -> <<>>)
  ELSE m.value \o (IF m.trim THEN <<"=">> ELSE <<>>) \o <<"%", ">">>

\* C22: a successful call matches the text that begins at the cursor's
\* offset and moves the offset to the end of the match; a failed call
\* returns null and leaves the cursor as it is; over the calls the offset
\* never decreases and never exceeds the length of the value.
C22_StickyMatch ==
  /\ tmpl # <<>> => /\ tmpl[1].value = input.text
                    /\ tmpl[1].offset = stats[Len(stats)]
                    /\ tmpl[1].offset <= Len(input.text)
  /\ \A i \in 1..Len(rets) :
       /\ stats[i] <= stats[i + 1]
       /\ IF rets[i].matched
          THEN /\ stats[i + 1] = stats[i] + Len(Consumed(rets[i]))
               /\ HasAt(input.text, stats[i] + 1, Consumed(rets[i]))
          ELSE stats[i + 1] = stats[i]

\* on %><%: END_RE matches %>, then END_RE fails and the offset stays 2,
\* then START_RE matches <%
C22_Witness ==
  /\ input.text = <<"%", ">", "<", "%">>
  /\ stats = <<0, 2, 2, 4>>
  /\ rets[1].matched /\ ~rets[2].matched /\ rets[3].matched

-----------------------------------------------------------------------------
(* Block markers and the text around them (C23): a block whose start       *)
(* marker is on line 1 and whose end marker is on line 2, each with text   *)
(* before and after it, and a call of the block between brackets on line 3. *)

MarkerShapes ==
  [lead1  : {<<>>, <<" ", " ">>, <<"x">>, <<"x", " ">>},
   after1 : {<<>>, <<" ">>, <<"y">>},
   lead2  : {<<>>, <<" ", " ">>, <<"b">>, <<"b", " ">>},
   after2 : {<<>>, <<" ">>, <<"z">>}]

MarkerInputs ==
  {[text    |-> s.lead1 \o BlockStart(<<"f">>, <<>>) \o s.after1 \o <<NL>>
                  \o s.lead2 \o BlockEnd(<<"f">>) \o s.after2 \o <<NL>>
                  \o <<"[", "<", "%", "=", "=", " ", "a", "w", "a", "i", "t", " ", "f", "(", ")", " ", "%", ">", "]">>,
    options |-> Options(NoName, NotGiven),
    datas   |-> {NoData},
    shape   |-> s] : s \in MarkerShapes}

SpecMarkers == InitWith(MarkerInputs) /\ [][NextBlocks]_vars

\* the text before a marker that is rendered: none of it when it is white
\* space only
Before(lead) == IF \A i \in 1..Len(lead) : lead[i] \in {" ", "	"} THEN <<>> ELSE lead

\* the text after a marker and the line break of its line: no line break
\* when the marker is the last thing on the line
After(after) == IF after = <<>> THEN <<>> ELSE after \o <<NL>>

\* C23: a block marker renders nothing; when it is the last thing on its
\* line the line's newline is not rendered; white space that is all the
\* text before the marker on its line is dropped; other text before the
\* marker and all text after it on the line are rendered.
C23_BlockMarkers ==
  rets # <<>>
    => /\ Len(calls) = 1
       /\ Settled(1).status = "resolved"
       /\ Settled(1).result
            = Before(input.shape.lead1) \o After(input.shape.after2)
                \o <<"[">> \o After(input.shape.after1) \o Before(input.shape.lead2) \o <<"]">>

\* white space before both markers, text after both: the white space is
\* dropped, the text and the newlines after it are kept
C23_Witness ==
  /\ Resolved(1)
  /\ input.shape = [lead1 |-> <<" ", " ">>, after1 |-> <<"y">>, lead2 |-> <<" ", " ">>, after2 |-> <<"z">>]
  /\ calls[1].result = <<"z", NL, "[", "y", NL, "]">>

-----------------------------------------------------------------------------
(* The tagged template literal mt (C24): the literal's strings and the     *)
(* values interpolated between them.                                       *)

MaxValues == 2

LiteralInputsOf(n) ==
  {[text    |-> <<>>,
    options |-> Options(NoName, NotGiven),
    datas   |-> {},
    strings |-> strings,
    values  |-> values] :
     strings \in [1..(n + 1) -> {<<>>, <<"a">>, <<"<", "%", "=", " ">>, <<" ", "%", ">", NL>>}],
     values \in [1..n -> {<<"x">>, <<>>}]}

LiteralInputs == UNION {LiteralInputsOf(n) : n \in 0..MaxValues}

\* mt`...` with the strings and values of input
Mt ==
  /\ tmpl = <<>>
  /\ tmpl' = <<mt(input.strings, input.values)>>
  /\ stats' = <<0>>
  /\ UNCHANGED <<input, fns, rets, calls>>

NextLiteral == Mt

SpecLiteral == InitWith(LiteralInputs) /\ [][NextLiteral]_vars

\* strings[0] + values[0] + strings[1] + ... + strings[n]
RECURSIVE Interleaved(_, _)
Interleaved(strings, values) ==
  IF values = <<>> THEN Head(strings)
  ELSE Head(strings) \o Head(values) \o Interleaved(Tail(strings), Tail(values))

\* C24: the Template mt returns has the source text strings[0] + values[0]
\* + strings[1] + ... + strings[n], every value at its position.
C24_Interleaving ==
  tmpl # <<>>
    => tmpl[1] = [lines  |-> SplitLines(Interleaved(input.strings, input.values)),
                  name   |-> <<"t", "e", "m", "p", "l", "a", "t", "e">>,
                  escape |-> "xmlEscape",
                  fn     |-> 0]

-----------------------------------------------------------------------------
(* The mode of the parser from line to line (C25, C26): templates of up to *)
(* MaxModeLines lines that open, continue and close tags, directive lines  *)
(* and literal-percent lines.                                              *)

MaxModeLines == 2

ModeLines ==
  { <<"x">>, <<>>, <<" ", " ">>, <<"<", "%", "=", " ", "a">>, <<"<", "%", " ">>, <<"<", "%", "#", " ", "c">>, <<"y", "<", "%", "=", "=", " ", "a">>, <<" ", "a", " ", "%", ">", "z">>, <<"=", "%", ">">>,
    <<"<", "%", "%", "=", " ", "a">>, <<"%", " ", ";">>, <<"%", "=", " ", "a">>, <<"%", "%", " ", "y">>, <<"%", "%", " ", "<", "%", "=", " ", "a">>, <<" ", " ", "%", "%", " ", "<", "%", "#", " ", "c", " ", "%", ">", "<", "%", " ">>,
    <<"%", "#", " ", "<", "%", "=", " ", "a", " ", "%", ">">>, <<" ", " ", "%", "=", " ", "a", " ", "<", "{", "f", "}", ">", " ", "%", ">">>, <<"%", " ", "<", "%", " ", ";">>, <<"%", "=", "=", " ", "a">> }

ModeInputs ==
  {[text    |-> JoinLines(ls),
    options |-> Options(NoName, NotGiven),
    datas   |-> {},
    shape   |-> ls] : ls \in SeqsUpTo(ModeLines, MaxModeLines) \ {<<>>}}

\* parseTemplate(template.split(/\r?\n/)), with the mode at the start of
\* every line and after the last one
Parse ==
  /\ rets = <<>>
  /\ rets' = <<[ast |-> parseTemplate(SplitLines(input.text)),
                ops |-> [i \in 1..(Len(SplitLines(input.text)) + 1) |->
                           opAt(SplitLines(input.text), i)]]>>
  /\ UNCHANGED <<input, tmpl, fns, stats, calls>>

NextModes == Parse

SpecModes == InitWith(ModeInputs) /\ [][NextModes]_vars

\* the mode at the end of the text s that is scanned for tags from index i
\* on in the given mode: an opener <%, <%=, <%== or <%# switches to the
\* mode of its kind (<%% does not), a terminator %> switches to text
RECURSIVE ModeAfter(_, _, _)
ModeAfter(s, i, mode) ==
  IF i > Len(s) THEN mode
  ELSE IF mode = "text" THEN
    IF ~HasAt(s, i, <<"<", "%">>) THEN ModeAfter(s, i + 1, mode)
    ELSE IF HasAt(s, i + 2, <<"%">>) THEN ModeAfter(s, i + 3, "text")
    ELSE IF HasAt(s, i + 2, <<"#">>) THEN ModeAfter(s, i + 3, "comment")
    ELSE IF HasAt(s, i + 2, <<"=", "=">>) THEN ModeAfter(s, i + 4, "expression")
    ELSE IF HasAt(s, i + 2, <<"=">>) THEN ModeAfter(s, i + 3, "escape")
    ELSE ModeAfter(s, i + 2, "code")
  ELSE IF HasAt(s, i, <<"%", ">">>) THEN ModeAfter(s, i + 2, "text")
  ELSE ModeAfter(s, i + 1, mode)

\* the line is a directive line: % code, %= , %== or %# after white space
IsDirective(line) ==
  \E p \in 1..Len(line) :
    /\ \A k \in 1..(p - 1) : line[k] \in {" ", "	"}
    /\ line[p] = "%"
    /\ ~HasAt(line, p + 1, <<"%">>)

\* the line is a literal-percent line: %% after white space
IsLiteralPercent(line) ==
  \E p \in 1..Len(line) :
    /\ \A k \in 1..(p - 1) : line[k] \in {" ", "	"}
    /\ HasAt(line, p, <<"%", "%">>)

\* C25: every line that is scanned for tags, a literal-percent line
\* included, hands on to the next line the mode its scan ends in: the mode
\* of a tag that is open at the end of the line, text otherwise.
C25_OpenTagContinues ==
  rets # <<>>
    => \A i \in 1..Len(input.shape) :
         (rets[1].ops[i] # "text" \/ ~IsDirective(input.shape[i]))
           => rets[1].ops[i + 1] = ModeAfter(input.shape[i], 1, rets[1].ops[i])

\* the index of the k-th line node of the AST (0 for k = 0)
LineEnd(ast, k) ==
  IF k = 0 THEN 0
  ELSE Min({j \in 1..Len(ast) :
              /\ ast[j].op = "line"
              /\ Cardinality({m \in 1..j : ast[m].op = "line"}) = k})

\* the nodes of a directive line: one node of the directive's kind whose
\* value is all that follows the directive's characters, for an expression
\* line that is not the last line the text of its line break, and the end
\* of the line
Directive(line, p, isLast) ==
  (IF HasAt(line, p + 1, <<"#">>) THEN <<Node("comment", Slice(line, p + 1))>>
   ELSE IF HasAt(line, p + 1, <<"=", "=">>)
     THEN <<Node("expression", Slice(line, p + 2))>>
            \o (IF isLast THEN <<>> ELSE <<Node("text", <<NL>>)>>)
   ELSE IF HasAt(line, p + 1, <<"=">>)
     THEN <<Node("escape", Slice(line, p + 1))>>
            \o (IF isLast THEN <<>> ELSE <<Node("text", <<NL>>)>>)
   ELSE <<Node("code", Slice(line, p))>>)
  \o <<Node("end", <<>>), Node("line", <<>>)>>

\* the nodes of the AST for line i
NodesOfLine(i) ==
  SubSeq(rets[1].ast, LineEnd(rets[1].ast, i - 1) + 1, LineEnd(rets[1].ast, i))

\* C26: a line is classified only when the parser is in text mode at its
\* start.  A %, %=, %== or %# line then gives one node whose value is the
\* whole remainder of the line, nothing inside it is recognised, and the
\* next line starts in text mode.  In an open tag a line that begins with %
\* is content of the tag.
C26_DirectiveLines ==
  rets # <<>>
    => \A i \in 1..Len(input.shape) :
         IsDirective(input.shape[i])
           => IF rets[1].ops[i] = "text"
              THEN /\ NodesOfLine(i)
                        = Directive(input.shape[i], SkipSpace(input.shape[i], 1),
                                    i = Len(input.shape))
                   /\ rets[1].ops[i + 1] = "text"
              ELSE /\ NodesOfLine(i)[1].op = rets[1].ops[i]
                   /\ HasAt(NodesOfLine(i)[1].value,
                            Len(NodesOfLine(i)[1].value)
                              - Len(IF ModeAfter(input.shape[i], 1, rets[1].ops[i]) = rets[1].ops[i]
                                    THEN input.shape[i] ELSE <<>>) + 1,
                            IF ModeAfter(input.shape[i], 1, rets[1].ops[i]) = rets[1].ops[i]
                            THEN input.shape[i] ELSE <<>>)
                   /\ rets[1].ops[i + 1] = ModeAfter(input.shape[i], 1, rets[1].ops[i])

\* a comment line that holds an expression tag is one comment node; in an
\* open comment tag the same line is content and its %> closes the tag
C26_Witness ==
  /\ rets # <<>>
  /\ input.shape = <<<<"<", "%", "#", " ", "c">>, <<"%", "#", " ", "<", "%", "=", " ", "a", " ", "%", ">">>>>
  /\ rets[1].ops = <<"text", "comment", "text">>
  /\ rets[1].ast = <<Node("comment", <<" ", "c">>), Node("line", <<>>),
                     Node("comment", <<"%", "#", " ", "<", "%", "=", " ", "a", " ">>), Node("end", <<>>), Node("line", <<>>)>>

-----------------------------------------------------------------------------
(* Adjacent tags of the same kind (C27).                                   *)

\* data contexts that bind the names a and b
DataAB(v, w) == (<<"a">> :> v) @@ (<<"b">> :> w)

\* two expression tags of the same kind, the second directly after the
\* first (sep is empty) or on the next line (sep is a line break, with and
\* without the trimming =%> on the first), and two expression lines
AdjacentInputs ==
  {[text    |-> pre \o Tag(type, first, close) \o sep \o Tag(type, <<" ", "b", " ">>, <<>>) \o post,
    options |-> Options(NoName, NotGiven),
    datas   |-> {DataAB(v, w)},
    shape   |-> [type |-> type, form |-> "tags", close |-> close, sep |-> sep,
                 pre |-> pre, post |-> post, a |-> v, b |-> w]] :
     type \in {<<"=">>, <<"=", "=">>}, first \in {<<" ", "a", " ">>, <<"a">>, <<" ", "a", ";", " ">>}, close \in {<<>>, <<"=">>},
     sep \in {<<>>, <<NL>>}, pre \in {<<>>, <<"x">>}, post \in {<<>>, <<"y">>, <<NL, "y">>},
     v \in {Str(<<"o", "k">>), Str(<<"<", "b", ">">>)}, w \in {Str(<<"w">>), Str(<<"&">>)}}
  \cup
  {[text    |-> pre \o <<"%">> \o type \o <<" ", "a">> \o <<NL>> \o <<"%">> \o type \o <<" ", "b">> \o post,
    options |-> Options(NoName, NotGiven),
    datas   |-> {DataAB(v, w)},
    shape   |-> [type |-> type, form |-> "lines", close |-> <<>>, sep |-> <<NL>>,
                 pre |-> pre, post |-> post, a |-> v, b |-> w]] :
     type \in {<<"=">>, <<"=", "=">>}, pre \in {<<>>, <<"x", NL>>}, post \in {<<>>, <<NL, "y">>},
     v \in {Str(<<"o", "k">>), Str(<<"<", "b", ">">>)}, w \in {Str(<<"w">>), Str(<<"&">>)}}

SpecAdjacent == InitWith(AdjacentInputs) /\ [][NextRender]_vars

\* what is rendered between the two values: the line break between the
\* tags, unless the first tag trims it
Between == IF input.shape.sep = <<NL>> /\ input.shape.close = <<>> THEN <<NL>> ELSE <<>>

\* C27: two terminated tags of the same kind that are adjacent, on one line
\* or on consecutive lines, are not fused: the generated source has two
\* append statements and the two values are rendered one after the other.
C27_NeverFused ==
  rets # <<>>
    => /\ Len(calls) = 1 /\ Resolved(1)
       /\ Cardinality(ExprPieces(fns[1].code)) = 2
       /\ calls[1].result = input.shape.pre
            \o Output("xmlEscape", IF input.shape.type = <<"=">> THEN "escape" ELSE "expression",
                      input.shape.a)
            \o Between
            \o Output("xmlEscape", IF input.shape.type = <<"=">> THEN "escape" ELSE "expression",
                      input.shape.b)
            \o input.shape.post

\* <%== a =%> and <%== b %> on consecutive lines: only a line node stands
\* between the two tags, and the two values follow each other
C27_Witness ==
  /\ Resolved(1)
  /\ input.text = <<"<", "%", "=", "=", " ", "a", " ", "=", "%", ">", NL, "<", "%", "=", "=", " ", "b", " ", "%", ">", "y">>
  /\ input.shape.a = Str(<<"<", "b", ">">>) /\ input.shape.b = Str(<<"&">>)
  /\ Cardinality(ExprPieces(fns[1].code)) = 2
  /\ calls[1].result = <<"<", "b", ">", "&", "y">>

-----------------------------------------------------------------------------
(* One node for every block marker (C28).                                  *)

\* two blocks a and b with balanced markers: b nested in a, or b after a;
\* between two markers stands nothing, a space, text or a line break
NestedInputs ==
  {[text  |-> BlockStart(<<"a">>, ha) \o s1 \o BlockStart(<<"b">>, hb) \o body
                \o BlockEnd(<<"b">>) \o s2 \o BlockEnd(<<"a">>),
    shape |-> [starts |-> <<[name |-> <<"a">>, hints |-> ha], [name |-> <<"b">>, hints |-> hb]>>,
               ends |-> <<<<"b">>, <<"a">>>>, seps |-> <<s1, s2>>]] :
     ha \in {<<>>, <<"(", "p", ")">>}, hb \in {<<>>, <<"(", "q", ")">>}, body \in {<<>>, <<"y">>},
     s1 \in {<<>>, <<" ">>, <<"x">>, <<NL>>}, s2 \in {<<>>, <<" ">>, <<"x">>, <<NL>>}}
  \cup
  {[text  |-> BlockStart(<<"a">>, ha) \o body \o BlockEnd(<<"a">>) \o s1
                \o BlockStart(<<"b">>, hb) \o body \o BlockEnd(<<"b">>),
    shape |-> [starts |-> <<[name |-> <<"a">>, hints |-> ha], [name |-> <<"b">>, hints |-> hb]>>,
               ends |-> <<<<"a">>, <<"b">>>>, seps |-> <<s1>>]] :
     ha \in {<<>>, <<"(", "p", ")">>}, hb \in {<<>>, <<"(", "q", ")">>}, body \in {<<>>, <<"y">>},
     s1 \in {<<>>, <<" ">>, <<"x">>, <<NL>>}}

SpecNested == InitWith(NestedInputs) /\ [][NextModes]_vars

IsBlockStart(node) == node.op = "blockStart"
IsBlockEnd(node) == node.op = "blockEnd"

\* the parameter list of a marker without its parentheses
HintsOf(h) == IF h = <<>> THEN <<>> ELSE SubSeq(h, 2, Len(h) - 1)

\* C28: the AST of a template with balanced, properly nested block markers
\* has one blockStart node for every start marker, with the name and the
\* parameter list of that marker, and one blockEnd node for every end
\* marker, in document order, also when two markers are adjacent.
C28_OneNodePerMarker ==
  rets # <<>>
    => /\ SelectSeq(rets[1].ast, IsBlockStart)
            = [i \in 1..2 |-> [op    |-> "blockStart",
                               value |-> input.shape.starts[i].name,
                               hints |-> HintsOf(input.shape.starts[i].hints)]]
       /\ SelectSeq(rets[1].ast, IsBlockEnd)
            = [i \in 1..2 |-> [op |-> "blockEnd", value |-> input.shape.ends[i],
                               hints |-> <<>>]]

-----------------------------------------------------------------------------
(* The string literal of a text (C29).                                     *)

MaxQuoteLen == 4

QuoteChars == {"\\", "'", NL, CR, "n", "a"}

QuoteInputs == {[text |-> t] : t \in SeqsUpTo(QuoteChars, MaxQuoteLen)}

\* escapeText(node.value), and the value of the literal '...' it stands in
EscapeText ==
  /\ rets = <<>>
  /\ rets' = <<[literal |-> escapeText(input.text),
                decoded |-> DecodeLiteral(escapeText(input.text))]>>
  /\ UNCHANGED <<input, tmpl, fns, stats, calls>>

NextQuote == EscapeText

SpecQuote == InitWith(QuoteInputs) /\ [][NextQuote]_vars

\* the number of backslashes that stand directly before index i of s
RECURSIVE BackslashesBefore(_, _)
BackslashesBefore(s, i) ==
  IF i > 1 /\ s[i - 1] = "\\" THEN 1 + BackslashesBefore(s, i - 1) ELSE 0

\* C29: the literal emitted for a text decodes to exactly that text; it
\* holds no raw line feed or carriage return, and every single quote in it
\* is escaped.
C29_LiteralRoundTrip ==
  rets # <<>>
    => /\ rets[1].decoded = [ok |-> TRUE, s |-> input.text]
       /\ \A i \in 1..Len(rets[1].literal) :
            /\ rets[1].literal[i] \notin {NL, CR}
            /\ rets[1].literal[i] = "'" => BackslashesBefore(rets[1].literal, i) % 2 = 1

\* a backslash before a quote and a backslash before the letter n
C29_Witness ==
  /\ rets # <<>>
  /\ input.text = <<"\\", "'", "\\", "n">>
  /\ rets[1].literal = <<"\\", "\\", "\\", "'", "\\", "\\", "n">>
  /\ rets[1].decoded.s = input.text

-----------------------------------------------------------------------------
(* The loops of the parser, step by step (C30).  fns holds the loop state  *)
(* of parseTemplate (the 1-based line index i and the mode op), tmpl the   *)
(* cursor of the parseLine that is running, stats the offsets the cursor   *)
(* has had on the current line, calls the pending calls of parseBlock and  *)
(* rets the lines visited so far.                                          *)

MaxScanLines == 2

\* no line needs as many iterations as this
MaxIterations == 8

\* lines of every kind: a tag left open, a tag closed, a literal-percent
\* line, an expression line, an empty line, lines with block markers
ScanLines ==
  { <<"y", "<", "%", "=", "=", " ", "a">>, <<" ", "a", " ", "%", ">", "z">>, <<" ", " ", "%", "%", " ", "<", "%", "#", " ", "c", " ", "%", ">", "<", "%", " ">>, <<"%", "=", " ", "a">>, <<>>,
    <<"x", " ", "<", "{", "a", "}", ">", " ", "<", "{", "b", "(", "p", ")", "}", ">", "y">>, <<"<", "{", "/", "a", "}", ">", "<", "%", "=", " ", "a", " ", "=", "%", ">">> }

\* the template and the lines the constructor has split it into
ScanInputs ==
  {[text |-> JoinLines(ls), lines |-> SplitLines(JoinLines(ls))] :
     ls \in SeqsUpTo(ScanLines, MaxScanLines)}

\* this._source.lines
Lines == input.lines

\* let op: Op = 'text'; for (let i = 0; ...
ParseStart ==
  /\ fns = <<>>
  /\ fns' = <<[i |-> 1, op |-> "text", literal |-> FALSE]>>
  /\ UNCHANGED <<input, tmpl, stats, rets, calls>>

\* the body of the loop of parseTemplate for one line: a directive line and
\* an empty line inside a tag are done at once, for every other line
\* parseLine begins with the cursor at 0
VisitLineAs(line, op, lineMatch) ==
  /\ rets' = Append(rets, fns[1].i)
  /\ IF op = "text" /\ lineMatch.matched /\ lineMatch.type # "%"
       THEN /\ fns' = <<[i |-> fns[1].i + 1, op |-> "text", literal |-> FALSE]>>
            /\ UNCHANGED <<tmpl, stats>>
     ELSE IF op # "text" /\ line = <<>>
       THEN /\ fns' = <<[fns[1] EXCEPT !.i = @ + 1]>>
            /\ UNCHANGED <<tmpl, stats>>
     ELSE /\ fns' = <<[fns[1] EXCEPT !.literal = (op = "text" /\ lineMatch.matched)]>>
          /\ tmpl' = <<[offset |-> 0,
                        value  |-> IF op = "text" /\ lineMatch.matched
                                   THEN lineMatch.indent \o <<"%">> \o lineMatch.value
                                   ELSE line]>>
          /\ stats' = <<0>>
  /\ UNCHANGED <<input, calls>>

VisitLine ==
  /\ fns # <<>> /\ tmpl = <<>> /\ fns[1].i <= Len(Lines)
  /\ VisitLineAs(Lines[fns[1].i], fns[1].op, LineMatch(Lines[fns[1].i]))

\* "Tag end" that leaves the cursor where it is when END_RE does not match
tagEndStay(line, op, r) ==
  [sticky |-> r.sticky, op |-> IF r.match.matched THEN "text" ELSE op, blocks |-> <<>>]

\* "Tag end": the cursor and the mode after one iteration of the scan loop
\* inside a tag; r is the result of stickyMatch(sticky, END_RE)
tagEnd(line, op, r) ==
  IF r.match.matched THEN [sticky |-> r.sticky, op |-> "text", blocks |-> <<>>]
  ELSE [sticky |-> [r.sticky EXCEPT !.offset = Len(line)], op |-> op, blocks |-> <<>>]

\* "Tag start": the cursor, the mode and the text handed to parseBlock after
\* one iteration in text mode; r is the result of stickyMatch(sticky, START_RE)
tagStart(line, op, r) ==
  IF r.match.matched
  THEN [sticky |-> r.sticky, op |-> OpenerOp(r.match.type),
        blocks |-> IF r.match.leftovers # <<>> THEN <<r.match.leftovers>> ELSE <<>>]
  ELSE [sticky |-> [r.sticky EXCEPT !.offset = Len(line)], op |-> op,
        blocks |-> <<Slice(line, r.sticky.offset)>>]

Stepped(s) ==
  /\ tmpl' = <<s.sticky>>
  /\ stats' = Append(stats, s.sticky.offset)
  /\ fns' = <<[fns[1] EXCEPT !.op = s.op]>>
  /\ calls' = s.blocks
  /\ UNCHANGED <<input, rets>>

\* one iteration of while (length > sticky.offset)
ScanStep ==
  /\ tmpl # <<>> /\ calls = <<>>
  /\ Len(tmpl[1].value) > tmpl[1].offset
  /\ Len(stats) < MaxIterations
  /\ IF fns[1].op # "text"
     THEN Stepped(tagEnd(tmpl[1].value, fns[1].op,
                         stickyMatch(tmpl[1], EndMatch(tmpl[1].value, tmpl[1].offset))))
     ELSE Stepped(tagStart(tmpl[1].value, fns[1].op,
                           stickyMatch(tmpl[1], StartMatch(tmpl[1].value, tmpl[1].offset))))

\* the calls parseBlock(text, 'text') makes, the one made first last;
\* blockMatch is text.match(BLOCK_RE)
parseBlockCalls(text, blockMatch) ==
  IF text = <<>> \/ ~blockMatch.matched THEN <<>>
  ELSE <<blockMatch.rest>>
         \o (IF AllSpace(blockMatch.prefix) THEN <<>> ELSE <<blockMatch.prefix>>)

\* one call of parseBlock
ParseBlock ==
  /\ calls # <<>>
  /\ calls' = SubSeq(calls, 1, Len(calls) - 1)
                \o parseBlockCalls(calls[Len(calls)], BlockMatch(calls[Len(calls)]))
  /\ UNCHANGED <<input, tmpl, fns, stats, rets>>

\* parseLine returns and the loop of parseTemplate goes on to the next line
LineDone ==
  /\ tmpl # <<>> /\ calls = <<>>
  /\ ~(Len(tmpl[1].value) > tmpl[1].offset)
  /\ tmpl' = <<>>
  /\ fns' = <<[i |-> fns[1].i + 1,
               op |-> IF fns[1].literal THEN "text" ELSE fns[1].op,
               literal |-> FALSE]>>
  /\ UNCHANGED <<input, stats, rets, calls>>

NextScan == ParseStart \/ VisitLine \/ ScanStep \/ ParseBlock \/ LineDone

SpecScan == InitWith(ScanInputs) /\ [][NextScan]_vars

\* the parser is never stopped from outside
SpecScanFair == SpecScan /\ WF_vars(NextScan)

\* parseTemplate has returned
Done == fns # <<>> /\ fns[1].i > Len(Lines)

\* the match of the iteration that starts in the current state
ScanMatch ==
  IF fns[1].op # "text" THEN EndMatch(tmpl[1].value, tmpl[1].offset)
  ELSE StartMatch(tmpl[1].value, tmpl[1].offset)

\* C30: parsing terminates.  Every iteration of the scan loop of parseLine
\* moves the cursor forward, by two characters or more when the opener or
\* terminator matches and to the end of the line when it does not, so a line
\* takes no more iterations than it has characters; parseBlock calls itself
\* only for strictly shorter texts; parseTemplate visits the lines once
\* each, in order.
C30_Terminates ==
  /\ <>Done
  /\ [](/\ rets = [j \in 1..Len(rets) |-> j]
        /\ Done => Len(rets) = Len(Lines)
        /\ tmpl # <<>> => Len(stats) - 1 <= Len(tmpl[1].value))
  /\ [][/\ ScanStep
             => /\ tmpl'[1].offset > tmpl[1].offset
                /\ ScanMatch.matched => tmpl'[1].offset >= tmpl[1].offset + 2
                /\ ~ScanMatch.matched => tmpl'[1].offset = Len(tmpl[1].value)
        /\ ParseBlock
             => \A j \in Len(calls)..Len(calls') :
                  Len(calls'[j]) < Len(calls[Len(calls)])]_vars

\* a tag that is closed on the second line: the terminator moves the
\* cursor from 0 to 5, the text after it to the end of the line
C30_Witness ==
  /\ Done
  /\ Lines = <<<<"y", "<", "%", "=", "=", " ", "a">>, <<" ", "a", " ", "%", ">", "z">>>>
  /\ rets = <<1, 2>>
  /\ stats = <<0, 5, 6>>

====
